---- MODULE Spec2Model ----
(***************************************************************************)
(* Model of the retro filter engine of src/utils/imageProcessing.ts:       *)
(* applyRetroFilter (the image load callbacks and the stages of the onload *)
(* handler), the per-pixel kernels, the snapshot-based effects and the     *)
(* polaroid frame composer.                                                *)
(*                                                                         *)
(* Numbers.  The kernels compute on IEEE doubles and store into a          *)
(* Uint8ClampedArray.  The model computes on exact rationals, written as   *)
(* mixed numbers [i, n, d] = i + n/d with 0 <= n < d in lowest terms, so   *)
(* that no intermediate exceeds 31 bits, and applies the array's store     *)
(* conversion (clamp, round half to even) at every store.  Math.random()   *)
(* is a read of a cyclic tape of thousandths at the invocation's cursor.   *)
(***************************************************************************)
EXTENDS Integers, Sequences, FiniteSets, TLC

(***************************************************************************)
(* Bounds of the model.                                                    *)
(***************************************************************************)
MaxW == 2
MaxH == 2
TapeLen == 2
MaxReads == 2
MaxCalls == 2

(***************************************************************************)
(* Rational arithmetic (the doubles of the kernels).                       *)
(***************************************************************************)
RECURSIVE GCD(_, _)
GCD(a, b) == IF b = 0 THEN a ELSE GCD(b, a % b)

QNorm(num, den) ==
  LET lowest(r, g) == [i |-> num \div den, n |-> r \div g, d |-> den \div g]
  IN  lowest(num % den, GCD(num % den, den))

QInt(k) == [i |-> k, n |-> 0, d |-> 1]

QAdd(a, b) ==
  LET fractions(L) == QNorm(a.n * (L \div a.d) + b.n * (L \div b.d), L)
      whole(r) == [i |-> a.i + b.i + r.i, n |-> r.n, d |-> r.d]
  IN  whole(fractions((a.d \div GCD(a.d, b.d)) * b.d))

QNeg(a) == IF a.n = 0 THEN QInt(-a.i) ELSE [i |-> -a.i - 1, n |-> a.d - a.n, d |-> a.d]

QSub(a, b) == QAdd(a, QNeg(b))

\* a * (p / q) for a decimal constant p/q of the source (1.08 = 108/100)
QMul(a, p, q) == QAdd(QNorm(a.i * p, q), QNorm(a.n * p, a.d * q))

QLt(a, b) == QSub(a, b).i < 0

QGt(a, b) == QLt(b, a)

QMin(a, b) == IF QLt(b, a) THEN b ELSE a

QMax(a, b) == IF QLt(a, b) THEN b ELSE a

\* Math.floor
Floor(a) == a.i

\* Math.max(lo, Math.min(hi, x))
Clamp(x, lo, hi) == QMax(QInt(lo), QMin(QInt(hi), x))

\* The store conversion of Int8Array: truncate toward zero, wrap to -128..127.
ToInt8(a) ==
  LET wrapped(m) == IF m >= 128 THEN m - 256 ELSE m
  IN  wrapped((IF a.i < 0 /\ a.n > 0 THEN a.i + 1 ELSE a.i) % 256)

\* The store conversion of Uint8ClampedArray: clamp to 0..255, round half to even.
ToUint8Clamp(a) ==
  IF a.i < 0 THEN 0
  ELSE IF a.i >= 255 THEN 255
  ELSE IF 2 * a.n < a.d THEN a.i
  ELSE IF 2 * a.n > a.d THEN a.i + 1
  ELSE IF a.i % 2 = 0 THEN a.i ELSE a.i + 1

\* luma 0.299 R + 0.587 G + 0.114 B
Luma(r, g, b) == QAdd(QAdd(QMul(r, 299, 1000), QMul(g, 587, 1000)), QMul(b, 114, 1000))

\* (r + g + b) / 3
Mean3(r, g, b) == QMul(QAdd(QAdd(r, g), b), 1, 3)

\* gray + (c - gray) * (p / q)
Saturate(c, gray, p, q) == QAdd(gray, QMul(QSub(c, gray), p, q))

\* ink + (paper - ink) * t
Lerp(ink, paper, t) == QAdd(QInt(ink), QMul(t, paper - ink, 1))


(***************************************************************************)
(* The pixel buffer: ImageData.data, a Uint8ClampedArray indexed from 0,   *)
(* four bytes (R, G, B, A) per pixel.                                      *)
(***************************************************************************)
Length(data) == Cardinality(DOMAIN data)

\* The value of the ch-th channel of the pixel at byte index i, as a number.
Ch(data, i, ch) == QInt(data[i + ch])

\* The loop also storing 255 in data[i + 3].
WritePixelsOpaque(data, rgb) ==
  [j \in DOMAIN data |-> IF j % 4 = 3 THEN 255 ELSE rgb[j \div 4][(j % 4) + 1]]

\* The loop "for (i = 0; i < data.length; i += 4)" writing data[i], data[i+1],
\* data[i+2] of every pixel; rgb[p] are the three values stored for pixel p.
WritePixels(data, rgb) ==
  [j \in DOMAIN data |-> IF j % 4 = 3 THEN data[j] ELSE rgb[j \div 4][(j % 4) + 1]]

Pixels(data) == 0 .. ((Length(data) \div 4) - 1)

(***************************************************************************)
(* Math.random(): the value of the tape at the cursor, in thousandths.     *)
(***************************************************************************)
Random(tape, cursor) == QNorm(tape[(cursor % Len(tape)) + 1], 1000)

Half == QNorm(1, 2)

\* (Math.random() - 0.5) * amount
Noise(tape, cursor, amount) == QMul(QSub(Random(tape, cursor), Half), amount, 1)

(***************************************************************************)
(* Single-pass kernels.  Each returns the buffer after its loop; the       *)
(* kernels that draw random numbers take the tape and the cursor at entry. *)
(***************************************************************************)
applyAgedGazette(data, tape, cursor) ==
  LET px(p) ==
        LET i == 4 * p
            gray == Luma(Ch(data, i, 0), Ch(data, i, 1), Ch(data, i, 2))
            noise == Noise(tape, cursor + p, 20)
            val == Clamp(QAdd(QMul(QSub(QAdd(gray, noise), QInt(128)), 15, 10), QInt(128)), 0, 255)
            t == QMul(val, 1, 255)
        IN  << ToUint8Clamp(Lerp(45, 245, t)),
               ToUint8Clamp(Lerp(40, 238, t)),
               ToUint8Clamp(Lerp(40, 215, t)) >>
  IN  WritePixels(data, [p \in Pixels(data) |-> px(p)])

\* The newspaper kernel clamping to 0..255 as the other kernels do.
applyNewspaperBWFullRange(data, tape, cursor) ==
  LET px(p) ==
        LET i == 4 * p
            gray == Luma(Ch(data, i, 0), Ch(data, i, 1), Ch(data, i, 2))
            noise == Noise(tape, cursor + p, 30)
            val == Clamp(QAdd(QMul(QSub(QAdd(gray, noise), QInt(128)), 2, 1), QInt(128)), 0, 255)
        IN  << ToUint8Clamp(val), ToUint8Clamp(val), ToUint8Clamp(val) >>
  IN  WritePixels(data, [p \in Pixels(data) |-> px(p)])

applyNewspaperBW(data, tape, cursor) ==
  LET px(p) ==
        LET i == 4 * p
            gray == Luma(Ch(data, i, 0), Ch(data, i, 1), Ch(data, i, 2))
            noise == Noise(tape, cursor + p, 30)
            val == Clamp(QAdd(QMul(QSub(QAdd(gray, noise), QInt(128)), 2, 1), QInt(128)), 15, 245)
        IN  << ToUint8Clamp(val), ToUint8Clamp(val), ToUint8Clamp(val) >>
  IN  WritePixels(data, [p \in Pixels(data) |-> px(p)])

apply70sMagazine(data) ==
  LET px(p) ==
        LET i == 4 * p
            r1 == QAdd(QMul(Ch(data, i, 0), 108, 100), QInt(10))
            g1 == QAdd(QMul(Ch(data, i, 1), 102, 100), QInt(5))
            b1 == QMul(Ch(data, i, 2), 92, 100)
            r2 == QAdd(QMul(r1, 85, 100), QInt(25))
            g2 == QAdd(QMul(g1, 85, 100), QInt(25))
            b2 == QAdd(QMul(b1, 85, 100), QInt(25))
            gray == Luma(r2, g2, b2)
            r == Saturate(r2, gray, 85, 100)
            g == Saturate(g2, gray, 85, 100)
            b == Saturate(b2, gray, 85, 100)
        IN  << ToUint8Clamp(Clamp(r, 0, 255)),
               ToUint8Clamp(Clamp(g, 0, 255)),
               ToUint8Clamp(Clamp(b, 0, 255)) >>
  IN  WritePixels(data, [p \in Pixels(data) |-> px(p)])

apply80sGlossy(data) ==
  LET grade(c, gray) ==
        LET s == Saturate(c, gray, 16, 10)
            k == QAdd(QAdd(QMul(QSub(s, QInt(128)), 13, 10), QInt(128)), QInt(15))
        IN  IF QGt(k, QInt(235)) THEN QInt(255) ELSE k
      px(p) ==
        LET i == 4 * p
            gray == Mean3(Ch(data, i, 0), Ch(data, i, 1), Ch(data, i, 2))
        IN  << ToUint8Clamp(Clamp(grade(Ch(data, i, 0), gray), 0, 255)),
               ToUint8Clamp(Clamp(grade(Ch(data, i, 1), gray), 0, 255)),
               ToUint8Clamp(Clamp(grade(Ch(data, i, 2), gray), 0, 255)) >>
  IN  WritePixels(data, [p \in Pixels(data) |-> px(p)])

apply90sGrunge(data) ==
  LET split(c) == IF QLt(c, QInt(100)) THEN QMul(c, 85, 100) ELSE QMul(c, 115, 100)
      px(p) ==
        LET i == 4 * p
            r == split(QMul(Ch(data, i, 0), 95, 100))
            g == split(QMul(Ch(data, i, 1), 105, 100))
            b == split(QMul(Ch(data, i, 2), 102, 100))
        IN  << ToUint8Clamp(Clamp(r, 0, 255)),
               ToUint8Clamp(Clamp(g, 0, 255)),
               ToUint8Clamp(Clamp(b, 0, 255)) >>
  IN  WritePixels(data, [p \in Pixels(data) |-> px(p)])

applyBadPhotocopy(data, tape, cursor) ==
  LET px(p) ==
        LET i == 4 * p
            gray == Luma(Ch(data, i, 0), Ch(data, i, 1), Ch(data, i, 2))
            noise == Noise(tape, cursor + p, 60)
            val == IF QGt(QAdd(gray, noise), QInt(110)) THEN 255 ELSE 20
        IN  << ToUint8Clamp(QInt(val)), ToUint8Clamp(QInt(val)), ToUint8Clamp(QInt(val)) >>
  IN  WritePixels(data, [p \in Pixels(data) |-> px(p)])

applyMimeograph(data, tape, cursor) ==
  LET px(p) ==
        LET i == 4 * p
            gray0 == Luma(Ch(data, i, 0), Ch(data, i, 1), Ch(data, i, 2))
            gray1 == QAdd(gray0, Noise(tape, cursor + p, 15))
            gray == Clamp(QAdd(QMul(QSub(gray1, QInt(128)), 15, 10), QInt(128)), 0, 255)
            t == QMul(gray, 1, 255)
        IN  << ToUint8Clamp(Lerp(60, 240, t)),
               ToUint8Clamp(Lerp(20, 240, t)),
               ToUint8Clamp(Lerp(120, 255, t)) >>
  IN  WritePixels(data, [p \in Pixels(data) |-> px(p)])

\* The contrast of the blueprint taken from 0 and not around 128.
applyBlueprintNoPivot(data) ==
  LET px(p) ==
        LET i == 4 * p
            gray0 == Luma(Ch(data, i, 0), Ch(data, i, 1), Ch(data, i, 2))
            gray == Clamp(QMul(gray0, 2, 1), 0, 255)
            t == QMul(gray, 1, 255)
        IN  << ToUint8Clamp(Lerp(0, 230, t)),
               ToUint8Clamp(Lerp(30, 240, t)),
               ToUint8Clamp(Lerp(85, 255, t)) >>
  IN  WritePixels(data, [p \in Pixels(data) |-> px(p)])

applyBlueprint(data) ==
  LET px(p) ==
        LET i == 4 * p
            gray0 == Luma(Ch(data, i, 0), Ch(data, i, 1), Ch(data, i, 2))
            gray == Clamp(QAdd(QMul(QSub(gray0, QInt(128)), 2, 1), QInt(128)), 0, 255)
            t == QMul(gray, 1, 255)
        IN  << ToUint8Clamp(Lerp(0, 230, t)),
               ToUint8Clamp(Lerp(30, 240, t)),
               ToUint8Clamp(Lerp(85, 255, t)) >>
  IN  WritePixels(data, [p \in Pixels(data) |-> px(p)])

\* Two draws per pixel: the noise, then the "paper jam" test.
applyThermal(data, tape, cursor) ==
  LET px(p) ==
        LET i == 4 * p
            gray == QAdd(Luma(Ch(data, i, 0), Ch(data, i, 1), Ch(data, i, 2)),
                         Noise(tape, cursor + 2 * p, 30))
            val0 == IF QGt(gray, QInt(130)) THEN 240 ELSE 20
            val == IF QGt(Random(tape, cursor + 2 * p + 1), QNorm(99, 100)) THEN 200 ELSE val0
        IN  << ToUint8Clamp(QInt(val)), ToUint8Clamp(QInt(val)), ToUint8Clamp(QInt(val)) >>
  IN  WritePixels(data, [p \in Pixels(data) |-> px(p)])

\* The interlace test made on the column instead of the row.
applyDVColumns(data, w, h) ==
  LET px(p) ==
        LET i == 4 * p
            x == p % w
            isOddLine == x % 2 # 0
            r0 == QMul(Ch(data, i, 0), 98, 100)
            g0 == Ch(data, i, 1)
            b0 == QMul(Ch(data, i, 2), 105, 100)
            r == IF isOddLine THEN QMul(r0, 75, 100) ELSE r0
            g == IF isOddLine THEN QMul(g0, 75, 100) ELSE g0
            b == IF isOddLine THEN QMul(b0, 75, 100) ELSE b0
        IN  << ToUint8Clamp(Clamp(r, 0, 255)),
               ToUint8Clamp(Clamp(g, 0, 255)),
               ToUint8Clamp(Clamp(b, 0, 255)) >>
  IN  WritePixels(data, [p \in Pixels(data) |-> px(p)])

applyDV(data, w, h) ==
  LET px(p) ==
        LET i == 4 * p
            y == p \div w
            isOddLine == y % 2 # 0
            r0 == QMul(Ch(data, i, 0), 98, 100)
            g0 == Ch(data, i, 1)
            b0 == QMul(Ch(data, i, 2), 105, 100)
            r == IF isOddLine THEN QMul(r0, 75, 100) ELSE r0
            g == IF isOddLine THEN QMul(g0, 75, 100) ELSE g0
            b == IF isOddLine THEN QMul(b0, 75, 100) ELSE b0
        IN  << ToUint8Clamp(Clamp(r, 0, 255)),
               ToUint8Clamp(Clamp(g, 0, 255)),
               ToUint8Clamp(Clamp(b, 0, 255)) >>
  IN  WritePixels(data, [p \in Pixels(data) |-> px(p)])

applyPolaroid1(data) ==
  LET px(p) ==
        LET i == 4 * p
            r == QAdd(QAdd(QInt(25), QMul(Ch(data, i, 0), 85, 100)), QInt(20))
            g0 == QAdd(QAdd(QInt(25), QMul(Ch(data, i, 1), 85, 100)), QInt(10))
            b0 == QSub(QAdd(QInt(25), QMul(Ch(data, i, 2), 85, 100)), QInt(5))
            g == IF QLt(r, QInt(100)) THEN QAdd(g0, QInt(5)) ELSE g0
            b == IF QLt(r, QInt(100)) THEN QAdd(b0, QInt(5)) ELSE b0
        IN  << ToUint8Clamp(Clamp(r, 0, 255)),
               ToUint8Clamp(Clamp(g, 0, 255)),
               ToUint8Clamp(Clamp(b, 0, 255)) >>
  IN  WritePixels(data, [p \in Pixels(data) |-> px(p)])

applyPolaroid2(data) ==
  LET px(p) ==
        LET i == 4 * p
            r == QAdd(QAdd(QInt(40), QMul(Ch(data, i, 0), 75, 100)), QInt(15))
            g == QSub(QAdd(QInt(40), QMul(Ch(data, i, 1), 75, 100)), QInt(10))
            b == QAdd(QAdd(QInt(40), QMul(Ch(data, i, 2), 75, 100)), QInt(10))
        IN  << ToUint8Clamp(Clamp(r, 0, 255)),
               ToUint8Clamp(Clamp(g, 0, 255)),
               ToUint8Clamp(Clamp(b, 0, 255)) >>
  IN  WritePixels(data, [p \in Pixels(data) |-> px(p)])

applyPolaroid3(data) ==
  LET contrast(c) == QAdd(QMul(QSub(c, QInt(128)), 12, 10), QInt(128))
      px(p) ==
        LET i == 4 * p
            r0 == QSub(contrast(Ch(data, i, 0)), QInt(10))
            g0 == contrast(Ch(data, i, 1))
            b0 == QAdd(contrast(Ch(data, i, 2)), QInt(20))
            gray == Mean3(r0, g0, b0)
        IN  << ToUint8Clamp(Clamp(Saturate(r0, gray, 8, 10), 0, 255)),
               ToUint8Clamp(Clamp(Saturate(g0, gray, 8, 10), 0, 255)),
               ToUint8Clamp(Clamp(Saturate(b0, gray, 8, 10), 0, 255)) >>
  IN  WritePixels(data, [p \in Pixels(data) |-> px(p)])


\* Math.sqrt of a small integer, to four decimals (exact on perfect squares).
RECURSIVE ISqrt(_, _, _)
ISqrt(n, lo, hi) ==
  IF lo = hi THEN lo
  ELSE LET mid == (lo + hi + 1) \div 2
       IN  IF mid * mid <= n THEN ISqrt(n, mid, hi) ELSE ISqrt(n, lo, mid - 1)

Sqrt(n) == QNorm(ISqrt(n * 100000000, 0, 46340), 10000)

\* The columns of the dots repeating every dotSize + 1 pixels.
applyComics60sTileOf5(data, w, h) ==
  LET dotSize == 4
      px(p) ==
        LET i == 4 * p
            x == p % w
            y == p \div w
            r0 == QInt((data[i] \div 64) * 64)
            g0 == QInt((data[i + 1] \div 64) * 64)
            b0 == QInt((data[i + 2] \div 64) * 64)
            gray == Mean3(r0, g0, b0)
            r1 == Saturate(r0, gray, 15, 10)
            g1 == Saturate(g0, gray, 15, 10)
            b1 == Saturate(b0, gray, 15, 10)
            gridX == x % (dotSize + 1)
            gridY == y % dotSize
            centerX == dotSize \div 2
            centerY == dotSize \div 2
            dist == Sqrt((gridX - centerX) * (gridX - centerX) + (gridY - centerY) * (gridY - centerY))
            luminance == QMul(Luma(r1, g1, b1), 1, 255)
            threshold == QMul(QSub(QInt(1), luminance), dotSize * 10, 12)
            ink == QLt(dist, threshold)
            r == IF ink THEN QInt(20) ELSE QMin(QInt(255), QSub(r1, QInt(2)))
            g == IF ink THEN QInt(20) ELSE QMin(QInt(255), QSub(g1, QInt(4)))
            b == IF ink THEN QInt(40) ELSE QMin(QInt(255), QSub(b1, QInt(9)))
        IN  << ToUint8Clamp(Clamp(r, 0, 255)),
               ToUint8Clamp(Clamp(g, 0, 255)),
               ToUint8Clamp(Clamp(b, 0, 255)) >>
  IN  WritePixels(data, [p \in Pixels(data) |-> px(p)])

applyComics60s(data, w, h) ==
  LET dotSize == 4
      px(p) ==
        LET i == 4 * p
            x == p % w
            y == p \div w
            r0 == QInt((data[i] \div 64) * 64)
            g0 == QInt((data[i + 1] \div 64) * 64)
            b0 == QInt((data[i + 2] \div 64) * 64)
            gray == Mean3(r0, g0, b0)
            r1 == Saturate(r0, gray, 15, 10)
            g1 == Saturate(g0, gray, 15, 10)
            b1 == Saturate(b0, gray, 15, 10)
            gridX == x % dotSize
            gridY == y % dotSize
            centerX == dotSize \div 2
            centerY == dotSize \div 2
            dist == Sqrt((gridX - centerX) * (gridX - centerX) + (gridY - centerY) * (gridY - centerY))
            luminance == QMul(Luma(r1, g1, b1), 1, 255)
            threshold == QMul(QSub(QInt(1), luminance), dotSize * 10, 12)
            ink == QLt(dist, threshold)
            r == IF ink THEN QInt(20) ELSE QMin(QInt(255), QSub(r1, QInt(2)))
            g == IF ink THEN QInt(20) ELSE QMin(QInt(255), QSub(g1, QInt(4)))
            b == IF ink THEN QInt(40) ELSE QMin(QInt(255), QSub(b1, QInt(9)))
        IN  << ToUint8Clamp(Clamp(r, 0, 255)),
               ToUint8Clamp(Clamp(g, 0, 255)),
               ToUint8Clamp(Clamp(b, 0, 255)) >>
  IN  WritePixels(data, [p \in Pixels(data) |-> px(p)])

(***************************************************************************)
(* Snapshot-based effects.  Each loop iteration computes the pixel (x, y)  *)
(* from the array bound to the parameter "source" and writes it to "data". *)
(***************************************************************************)
\* offset of applyMisaligned: Math.max(2, Math.floor(w * 0.006))
MisalignedOffset(w) == IF (w * 6) \div 1000 > 2 THEN (w * 6) \div 1000 ELSE 2

\* The shifted reads clamped to the edge columns, as in applyVHS.
MisalignedPixelClamped(source, w, h, x, y) ==
  LET offset == MisalignedOffset(w)
      i == (y * w + x) * 4
      xR == IF x + offset < w - 1 THEN x + offset ELSE w - 1
      xB == IF x - offset > 0 THEN x - offset ELSE 0
      r == source[(y * w + xR) * 4]
      g == source[i + 1]
      b == source[(y * w + xB) * 4 + 2]
  IN  << ToUint8Clamp(QInt(r)), ToUint8Clamp(QInt(g)), ToUint8Clamp(QInt(b)) >>

MisalignedPixel(source, w, h, x, y) ==
  LET offset == MisalignedOffset(w)
      i == (y * w + x) * 4
      r == IF x + offset < w THEN source[(y * w + (x + offset)) * 4] ELSE source[i]
      g == source[i + 1]
      b == IF x - offset >= 0 THEN source[(y * w + (x - offset)) * 4 + 2] ELSE source[i + 2]
  IN  << ToUint8Clamp(QInt(r)), ToUint8Clamp(QInt(g)), ToUint8Clamp(QInt(b)) >>

\* shiftR = Math.floor(w * 0.01), shiftB = Math.floor(w * -0.005)
VHSShiftR(w) == w \div 100

VHSShiftB(w) == (-(w * 5)) \div 1000

VHSPixel(source, w, h, x, y) ==
  LET i == (y * w + x) * 4
      xR == IF x + VHSShiftR(w) < w - 1 THEN x + VHSShiftR(w) ELSE w - 1
      xB == IF x + VHSShiftB(w) > 0 THEN x + VHSShiftB(w) ELSE 0
      r0 == QMul(QSub(QInt(source[(y * w + xR) * 4]), QInt(20)), 12, 10)
      g0 == QMul(QSub(QInt(source[i + 1]), QInt(20)), 12, 10)
      b0 == QMul(QSub(QInt(source[(y * w + xB) * 4 + 2]), QInt(20)), 12, 10)
      gray == QAdd(QAdd(QMul(r0, 3, 10), QMul(g0, 59, 100)), QMul(b0, 11, 100))
  IN  << ToUint8Clamp(Clamp(Saturate(r0, gray, 8, 10), 0, 255)),
         ToUint8Clamp(Clamp(Saturate(g0, gray, 8, 10), 0, 255)),
         ToUint8Clamp(Clamp(Saturate(b0, gray, 8, 10), 0, 255)) >>

QAbs(a) == IF a.i < 0 THEN QNeg(a) ELSE a

\* The guard with "x < w" in place of "x < w - 1".
HasNeighboursOffByOne(w, h, x, y) == x < w /\ y < h - 1

\* if (x < w - 1 && y < h - 1): the right and bottom neighbours exist
HasNeighbours(w, h, x, y) == x < w - 1 /\ y < h - 1

\* (source[j] + source[j+1] + source[j+2]) / 3
Comics80sAvg(source, j) == Mean3(QInt(source[j]), QInt(source[j + 1]), QInt(source[j + 2]))

\* The edge test on the right neighbour alone.
Comics80sIsEdgeRightOnly(source, w, h, x, y) ==
  IF HasNeighbours(w, h, x, y)
  THEN LET right == Comics80sAvg(source, (y * w + (x + 1)) * 4)
           current == Comics80sAvg(source, (y * w + x) * 4)
       IN  QGt(QAbs(QSub(current, right)), QInt(30))
  ELSE FALSE

\* isEdge of the iteration (x, y)
Comics80sIsEdge(source, w, h, x, y) ==
  IF HasNeighbours(w, h, x, y)
  THEN LET right == Comics80sAvg(source, (y * w + (x + 1)) * 4)
           bottom == Comics80sAvg(source, ((y + 1) * w + x) * 4)
           current == Comics80sAvg(source, (y * w + x) * 4)
       IN  \/ QGt(QAbs(QSub(current, right)), QInt(30))
           \/ QGt(QAbs(QSub(current, bottom)), QInt(30))
  ELSE FALSE

\* The pixels of "source" that the iteration (x, y) reads, as << column, row >>.
Comics80sReads(w, h, x, y) ==
  { << x, y >> } \cup
    (IF HasNeighbours(w, h, x, y) THEN { << x + 1, y >>, << x, y + 1 >> } ELSE { })

Comics80sPixel(source, w, h, x, y) ==
  LET i == (y * w + x) * 4
      gray == Comics80sAvg(source, i)
      boost(c) == QAdd(QMul(QSub(Saturate(QInt(c), gray, 14, 10), QInt(128)), 12, 10), QInt(128))
  IN  IF Comics80sIsEdge(source, w, h, x, y)
      THEN << ToUint8Clamp(QInt(10)), ToUint8Clamp(QInt(10)), ToUint8Clamp(QInt(15)) >>
      ELSE << ToUint8Clamp(Clamp(boost(source[i]), 0, 255)),
              ToUint8Clamp(Clamp(boost(source[i + 1]), 0, 255)),
              ToUint8Clamp(Clamp(boost(source[i + 2]), 0, 255)) >>

\* The array the loops read through their parameter "source": the call sites
\* pass the copy made before the call, not the live buffer.
SourceLive(data, copy) == data

SourceBuffer(data, copy) == copy

\* One iteration of the x/y loops: pixel p = y * w + x.
MultiPassWrite(filterType, data, copy, w, h, p) ==
  LET x == p % w
      y == p \div w
      source == SourceBuffer(data, copy)
      rgb == CASE filterType = "misaligned" -> MisalignedPixel(source, w, h, x, y)
               [] filterType = "vhs-worn" -> VHSPixel(source, w, h, x, y)
               [] filterType = "comics-80s" -> Comics80sPixel(source, w, h, x, y)
      i == 4 * p
  IN  [data EXCEPT ![i] = rgb[1], ![i + 1] = rgb[2], ![i + 2] = rgb[3]]

\* The iterations order[lo], ..., order[hi], one after the other.  (The test
\* on "first" makes TLC evaluate the first half before it enters the second.)
RECURSIVE ScanRange(_, _, _, _, _, _, _, _)
ScanRange(filterType, data, copy, w, h, order, lo, hi) ==
  IF lo > hi THEN data
  ELSE IF lo = hi THEN MultiPassWrite(filterType, data, copy, w, h, order[lo])
  ELSE LET mid == (lo + hi) \div 2
           first == ScanRange(filterType, data, copy, w, h, order, lo, mid)
       IN  IF DOMAIN first = DOMAIN data
           THEN ScanRange(filterType, first, copy, w, h, order, mid + 1, hi)
           ELSE first

\* The iterations in the order given by the sequence of pixel numbers.
Scan(filterType, data, copy, w, h, order) ==
  ScanRange(filterType, data, copy, w, h, order, 1, Len(order))

\* for (y = 0; y < h; y++) for (x = 0; x < w; x++)
RasterOrder(w, h) == [k \in 1 .. (w * h) |-> k - 1]

\* new Uint8ClampedArray(data)
CopyOf(data) == [j \in DOMAIN data |-> data[j]]

applyMisaligned(data, source, w, h) == Scan("misaligned", data, source, w, h, RasterOrder(w, h))

applyVHS(data, source, w, h) == Scan("vhs-worn", data, source, w, h, RasterOrder(w, h))

applyComics80s(data, source, w, h) == Scan("comics-80s", data, source, w, h, RasterOrder(w, h))


(***************************************************************************)
(* Presets.                                                                *)
(***************************************************************************)
\* The 17 values of the type FilterType.
FilterType ==
  { "newspaper-bw", "aged-gazette", "70s-mag", "80s-pop", "90s-washed",
    "bad-photocopy", "mimeograph", "blueprint", "misaligned", "thermal",
    "vhs-worn", "dv-cam", "comics-60s", "comics-80s",
    "polaroid-1", "polaroid-2", "polaroid-3" }

\* Strings outside the type, which the type annotation does not stop at run
\* time: one that starts with "polaroid" and one that does not.
UnknownFilters == { "sepia", "polaroid-9" }

\* filterType.startsWith('polaroid')
StartsWithPolaroid(filterType) ==
  filterType \in { "polaroid-1", "polaroid-2", "polaroid-3", "polaroid-9" }

\* The if / else-if chain of the single-pass kernels: the buffer and the
\* cursor of the random source after it.
SinglePassFilters ==
  { "aged-gazette", "newspaper-bw", "70s-mag", "bad-photocopy", "80s-pop",
    "90s-washed", "mimeograph", "blueprint", "thermal", "dv-cam",
    "comics-60s", "polaroid-1", "polaroid-2", "polaroid-3" }

SinglePass(filterType, data, w, h, tape, cursor) ==
  LET n == Length(data) \div 4
  IN  CASE filterType = "aged-gazette" ->
             [data |-> applyAgedGazette(data, tape, cursor), cursor |-> cursor + n]
        [] filterType = "newspaper-bw" ->
             [data |-> applyNewspaperBW(data, tape, cursor), cursor |-> cursor + n]
        [] filterType = "70s-mag" -> [data |-> apply70sMagazine(data), cursor |-> cursor]
        [] filterType = "bad-photocopy" ->
             [data |-> applyBadPhotocopy(data, tape, cursor), cursor |-> cursor + n]
        [] filterType = "80s-pop" -> [data |-> apply80sGlossy(data), cursor |-> cursor]
        [] filterType = "90s-washed" -> [data |-> apply90sGrunge(data), cursor |-> cursor]
        [] filterType = "mimeograph" ->
             [data |-> applyMimeograph(data, tape, cursor), cursor |-> cursor + n]
        [] filterType = "blueprint" -> [data |-> applyBlueprint(data), cursor |-> cursor]
        [] filterType = "thermal" ->
             [data |-> applyThermal(data, tape, cursor), cursor |-> cursor + 2 * n]
        [] filterType = "dv-cam" -> [data |-> applyDV(data, w, h), cursor |-> cursor]
        [] filterType = "comics-60s" -> [data |-> applyComics60s(data, w, h), cursor |-> cursor]
        [] filterType = "polaroid-1" -> [data |-> applyPolaroid1(data), cursor |-> cursor]
        [] filterType = "polaroid-2" -> [data |-> applyPolaroid2(data), cursor |-> cursor]
        [] filterType = "polaroid-3" -> [data |-> applyPolaroid3(data), cursor |-> cursor]
        [] OTHER -> [data |-> data, cursor |-> cursor]

\* "Filters requiring source copy"
SnapshotFilters == { "misaligned", "vhs-worn", "comics-80s" }

SnapshotPass(filterType, data, copy, w, h) ==
  CASE filterType = "misaligned" -> applyMisaligned(data, copy, w, h)
    [] filterType = "vhs-worn" -> applyVHS(data, copy, w, h)
    [] filterType = "comics-80s" -> applyComics80s(data, copy, w, h)

\* The iterations of applyComics80s that set isEdge, as << x, y >>, and the
\* pixels of the snapshot that its loops read.
EdgePixels(filterType, source, w, h) ==
  IF filterType = "comics-80s"
  THEN { c \in (0 .. (w - 1)) \X (0 .. (h - 1)) : Comics80sIsEdge(source, w, h, c[1], c[2]) }
  ELSE { }

NeighbourReads(filterType, w, h) ==
  IF filterType = "comics-80s"
  THEN UNION { Comics80sReads(w, h, c[1], c[2]) : c \in (0 .. (w - 1)) \X (0 .. (h - 1)) }
  ELSE { }

\* Vignette intensity in tenths, 0 when the first vignette is skipped.
heavyVignette(filterType) == filterType \in { "blueprint", "thermal", "vhs-worn", "comics-80s" }

\* The first vignette not skipped for the polaroid presets.
VignetteIntensityKeepsPolaroid(filterType) ==
  IF filterType \notin { "80s-pop", "bad-photocopy", "dv-cam", "comics-60s" }
  THEN (IF heavyVignette(filterType) THEN 6 ELSE 2)
  ELSE 0

VignetteIntensity(filterType) ==
  IF /\ ~StartsWithPolaroid(filterType)
     /\ filterType \notin { "80s-pop", "bad-photocopy", "dv-cam", "comics-60s" }
  THEN (IF heavyVignette(filterType) THEN 6 ELSE 2)
  ELSE 0

scratchyFilters == { "aged-gazette", "bad-photocopy", "thermal", "blueprint", "comics-60s" }

(***************************************************************************)
(* The 2D context: the part of its drawing state that the stages set.      *)
(***************************************************************************)
FreshContext ==
  [ globalCompositeOperation |-> "source-over", globalAlpha |-> 10,
    filter |-> "none", shadowColor |-> "transparent" ]

\* applyVignette without its last line: the blend mode stays 'multiply'.
applyVignetteKeepsMultiply(ctx) == [ctx EXCEPT !.globalCompositeOperation = "multiply"]

\* applyVignette: multiply while it fills, source-over when it returns.
applyVignette(ctx) == [ctx EXCEPT !.globalCompositeOperation = "source-over"]

\* Math.sqrt to two decimals, for the distances of the gradient.
Sqrt2(n) == ISqrt(n * 10000, 0, 46340)

\* Math.max(w, h)
Max(a, b) == IF a > b THEN a ELSE b

\* The position t in [0, 1] of the centre of pixel (x, y) in the gradient
\* createRadialGradient(w/2, h/2, w/5, w/2, h/2, radius), radius =
\* Math.max(w, h) / 1.5: t = (d - w/5) / (radius - w/5) for the distance d of
\* the pixel centre from (w/2, h/2), 0 inside the start circle and 1 outside
\* the end circle.
GradientPosition(w, h, x, y) ==
  LET inRange(t) == IF t.i < 0 THEN QInt(0) ELSE IF t.i >= 1 THEN QInt(1) ELSE t
  IN  inRange(QNorm(3 * Sqrt2((2 * x + 1 - w) * (2 * x + 1 - w) + (2 * y + 1 - h) * (2 * y + 1 - h))
                      - 120 * w,
                    40 * (10 * Max(w, h) - 3 * w)))

\* Nearest integer of a non-negative number.
RoundHalfUp(a) == IF 2 * a.n >= a.d THEN a.i + 1 ELSE a.i

\* One pixel << R, G, B, A >> of the bitmap after the fill with black of alpha
\* num/den in the 'multiply' mode: the blend of a colour with black is
\* black, composited over the pixel.
MultiplyBlack(px, num, den) ==
  LET cover == 255 * num + px[4] * (den - num)
      keep(c) == IF cover = 0 THEN 0
                 ELSE RoundHalfUp(QMul(QNorm(px[4] * (den - num), cover), c, 1))
  IN  << keep(px[1]), keep(px[2]), keep(px[3]), RoundHalfUp(QNorm(cover, den)) >>

\* The bitmap after applyVignette: the stop at 0 is rgba(0,0,0,0), the stop
\* at 1 is rgba(0,0,0,intensity), intensity in tenths.
VignetteFill(bitmap, w, h, intensity) ==
  LET shaded(p, t) ==
        MultiplyBlack(<< bitmap[4 * p], bitmap[4 * p + 1], bitmap[4 * p + 2], bitmap[4 * p + 3] >>,
                      t.i * intensity * t.d + t.n * intensity, 10 * t.d)
  IN  [j \in DOMAIN bitmap |->
         shaded(j \div 4, GradientPosition(w, h, (j \div 4) % w, (j \div 4) \div w))[(j % 4) + 1]]

\* applyPolaroidSoftness: the blur pass resets filter to none, the bloom pass
\* is bracketed by save / restore, the milkiness pass resets the blend mode.
applyPolaroidSoftness(ctx, filterType) ==
  LET blurred == [ctx EXCEPT !.filter = "none"]
      saved == blurred
      bloom == [blurred EXCEPT !.globalCompositeOperation = "soft-light",
                               !.globalAlpha = 5, !.filter = "blur saturate"]
      restored == saved
  IN  IF filterType = "polaroid-2"
      THEN [restored EXCEPT !.globalCompositeOperation = "source-over"]
      ELSE restored

\* numScratches = Math.floor((w * h) / 50000); four draws per scratch.
numScratches(w, h) == (w * h) \div 50000

applyScratches(ctx) == [ctx EXCEPT !.globalCompositeOperation = "source-over"]

(***************************************************************************)
(* applyTrackingNoise.  createImageData(w, bandHeight) converts h * 0.15   *)
(* to an integer number of rows and throws when that number is 0.  Two     *)
(* draws per band pixel, then two per glitch line.                         *)
(***************************************************************************)
BandRows(h) == (h * 15) \div 100

TrackingBand(w, h, tape, cursor) ==
  [j \in 0 .. (4 * w * BandRows(h) - 1) |->
     LET p == j \div 4
         noise == IF QGt(Random(tape, cursor + 2 * p), Half) THEN 255 ELSE 0
         on == QGt(Random(tape, cursor + 2 * p + 1), QNorm(3, 10))
     IN  IF j % 4 = 3 THEN (IF on THEN 100 ELSE 0)
         ELSE IF on THEN noise ELSE 0]

\* y of the five glitch lines, as a row number, and their height
GlitchLines(h, tape, cursor) ==
  [k \in 1 .. 5 |->
     << Floor(QMul(Random(tape, cursor + 2 * (k - 1)), h, 1)),
        Floor(QAdd(QMul(Random(tape, cursor + 2 * (k - 1) + 1), 3, 1), QInt(1))) >>]

(***************************************************************************)
(* applyDateStamp: five draws, in the order year, month, day, hour, min.   *)
(***************************************************************************)
DateStamp(tape, cursor) ==
  [ year |-> 1998 + Floor(QMul(Random(tape, cursor), 8, 1)),
    month |-> 1 + Floor(QMul(Random(tape, cursor + 1), 12, 1)),
    day |-> 1 + Floor(QMul(Random(tape, cursor + 2), 28, 1)),
    hour |-> Floor(QMul(Random(tape, cursor + 3), 24, 1)),
    min |-> Floor(QMul(Random(tape, cursor + 4), 60, 1)) ]

applyDateStamp(ctx) == [ctx EXCEPT !.shadowColor = "black"]


(***************************************************************************)
(* The polaroid frame.                                                     *)
(***************************************************************************)
Min(a, b) == IF a < b THEN a ELSE b

\* Math.floor(Math.min(w, h) * 0.08) and Math.floor(Math.min(w, h) * 0.35)
borderSize(w, h) == (Min(w, h) * 8) \div 100

bottomSize(w, h) == (Min(w, h) * 35) \div 100

frameW(w, h) == w + (borderSize(w, h) * 2)

frameH(w, h) == h + borderSize(w, h) + bottomSize(w, h)

\* '#fdfbf7', '#f4efe1', '#f0f4f7'
baseColor(filterType) ==
  IF filterType = "polaroid-2" THEN << 244, 239, 225 >>
  ELSE IF filterType = "polaroid-3" THEN << 240, 244, 247 >>
  ELSE << 253, 251, 247 >>

\* in hundredths: 0.05, 0.15, 0.08
noiseIntensity(filterType) ==
  IF filterType = "polaroid-2" THEN 15
  ELSE IF filterType = "polaroid-3" THEN 8
  ELSE 5

\* ctx.fillRect(0, 0, frameW, frameH) with fillStyle = baseColor
FilledSurface(w, h, color) ==
  [j \in 0 .. (4 * w * h - 1) |-> IF j % 4 = 3 THEN 255 ELSE color[(j % 4) + 1]]

\* The cursor at the start of each of n iterations of the grain loop entered
\* at cursor c, and the cursor after the last: one draw for the test
\* "Math.random() > 0.5", a second one for the noise when it passes.  (The
\* test on "last" makes TLC evaluate the first half before the second.)
RECURSIVE GrainCursors(_, _, _)
GrainCursors(tape, c, n) ==
  IF n = 0 THEN << c >>
  ELSE IF n = 1 THEN << c, IF QGt(Random(tape, c), Half) THEN c + 2 ELSE c + 1 >>
  ELSE LET half == n \div 2
           first == GrainCursors(tape, c, half)
           last == first[Len(first)]
       IN  IF last >= c THEN first \o Tail(GrainCursors(tape, last, n - half)) ELSE first

\* addPaperTexture: the grain loop ("d[i] += noise" on the three colour
\* channels), then the stains when intensity > 0.1: one draw for their number,
\* three per stain.
addPaperTexture(d, tape, cursor, intensity) ==
  LET n == Length(d) \div 4
      cursors == GrainCursors(tape, cursor, n)
      grain == [j \in DOMAIN d |->
                  LET c == cursors[(j \div 4) + 1]
                      noise == QMul(QMul(QSub(Random(tape, c + 1), Half), 30, 1), intensity, 100)
                  IN  IF j % 4 # 3 /\ QGt(Random(tape, c), Half)
                      THEN ToUint8Clamp(QAdd(QInt(d[j]), noise))
                      ELSE d[j]]
      afterGrain == cursors[n + 1]
      numStains == Floor(QMul(Random(tape, afterGrain), 4, 1)) + 1
  IN  [ data |-> grain,
        cursor |-> IF intensity > 10 THEN afterGrain + 1 + 3 * numStains ELSE afterGrain ]

\* addPaperTexture: the stains are filled in 'multiply', then the blend mode
\* is set back; no stains at an intensity of 0.1 or less.
PaperContext(ctx, intensity) ==
  IF intensity > 10 THEN [ctx EXCEPT !.globalCompositeOperation = "source-over"] ELSE ctx

\* The context of the frame canvas at ctx.drawImage(sourceCanvas, ...): new,
\* through addPaperTexture, shadowColor set for the inset rectangle and then
\* reset.
FrameContextAtDraw(filterType) ==
  LET paper == PaperContext(FreshContext, noiseIntensity(filterType))
      inset == [paper EXCEPT !.shadowColor = "rgba(0,0,0,0.4)"]
  IN  [inset EXCEPT !.shadowColor = "transparent"]

\* composePolaroidFrame when the context of the new canvas is obtained.
composePolaroidFrame(w, h, filterType, tape, cursor) ==
  LET paper == addPaperTexture(FilledSurface(frameW(w, h), frameH(w, h), baseColor(filterType)),
                               tape, cursor, noiseIntensity(filterType))
  IN  [ width |-> frameW(w, h), height |-> frameH(w, h),
        data |-> paper.data, cursor |-> paper.cursor,
        photoX |-> borderSize(w, h), photoY |-> borderSize(w, h),
        photoW |-> w, photoH |-> h,
        ctx |-> FrameContextAtDraw(filterType) ]


(***************************************************************************)
(* Inputs: decoded images and random tapes.                                *)
(***************************************************************************)
Palette ==
  << << 0, 0, 0, 255 >>, << 255, 255, 255, 255 >>,
     << 128, 128, 128, 255 >>, << 200, 60, 30, 128 >> >>

\* Patterns 1..4 are flat in one palette colour; 5 varies by column, 6 by
\* row, 7 along the diagonal.
Patterns == 1 .. 7

PatternColor(pat, x, y) ==
  CASE pat \in 1 .. 4 -> Palette[pat]
    [] pat = 5 -> Palette[(x % 4) + 1]
    [] pat = 6 -> Palette[(y % 4) + 1]
    [] pat = 7 -> Palette[((x + y) % 4) + 1]

MakeImage(w, h, pat) ==
  [ width |-> w, height |-> h,
    data |-> [j \in 0 .. (4 * w * h - 1) |->
                PatternColor(pat, (j \div 4) % w, (j \div 4) \div w)[(j % 4) + 1]] ]

\* Small images of every pattern, a strip tall enough for the tracking band,
\* one image large enough for a frame border of at least one pixel, and two
\* flat images of one and of more than one tile of the halftone dots.
Shapes ==
  ((1 .. MaxW) \X (1 .. MaxH) \X Patterns)
    \cup { << 2, 7, 3 >>, << 2, 7, 5 >>, << 2, 7, 6 >>, << 13, 13, 7 >>,
           << 4, 4, 1 >>, << 6, 6, 3 >> }

Images == { MakeImage(s[1], s[2], s[3]) : s \in Shapes }

\* Values of Math.random() in thousandths: 0 and one above 0.99.
RandVals == { 0, 995 }

\* The tapes of those values, and the tape of 0.5 throughout, on which
\* (Math.random() - 0.5) * amount is 0.
Tapes == [1 .. TapeLen -> RandVals] \cup { [n \in 1 .. TapeLen |-> 500] }

(***************************************************************************)
(* The component App of src/App.tsx: its state hooks, the file reads of     *)
(* handleFileChange that have not completed and the calls of handleGenerate.*)
(***************************************************************************)
\* "null" of the state hooks
Null == "null"

\* generatedImage === null; otherwise the data URL that applyRetroFilter
\* returned for a source image and a preset
NullResult == [ source |-> Null, filterType |-> Null ]

\* useState(null), useState('70s-mag'), useState(false); no read, no call
InitialApp ==
  [ sourceImage |-> Null,
    generatedImage |-> NullResult,
    selectedFilter |-> "70s-mag",
    loading |-> FALSE,
    error |-> Null,
    reads |-> << >>,
    calls |-> << >> ]

(***************************************************************************)
(* State: the invocations of applyRetroFilter.  inv[k] holds the arguments *)
(* of invocation k, the decoded image, the position in the load callbacks, *)
(* the canvas, its context and pixel buffer, and the promise.  "vignetted" *)
(* is the bitmap of the canvas when applyVignette returns, "entry" the      *)
(* drawing state of the context at the start of each overlay stage and at  *)
(* the drawImage of the photo into the frame.                              *)
(***************************************************************************)
VARIABLES inv, app

vars == << inv, app >>

NoFrame ==
  [ width |-> 0, height |-> 0, data |-> << >>, cursor |-> 0,
    photoX |-> 0, photoY |-> 0, photoW |-> 0, photoH |-> 0, ctx |-> FreshContext ]

NoStamp == [ year |-> 0, month |-> 0, day |-> 0, hour |-> 0, min |-> 0 ]

NewInvocation(img, filterType, tape) ==
  [ pc |-> "loading",
    filterType |-> filterType,
    img |-> img,
    tape |-> tape,
    cursor |-> 0,
    width |-> 0,
    height |-> 0,
    data |-> << >>,
    copy |-> << >>,
    edges |-> { },
    reads |-> { },
    ctx |-> FreshContext,
    entry |-> << >>,
    trace |-> << >>,
    vignettes |-> << >>,
    vignetted |-> << >>,
    band |-> << >>,
    glitch |-> << >>,
    stamp |-> NoStamp,
    frame |-> NoFrame,
    framed |-> FALSE,
    settled |-> "pending",
    settles |-> 0,
    error |-> "",
    outW |-> 0,
    outH |-> 0 ]


\* resolve(...) and reject(...): only the first settlement of a promise counts
Resolve(r, w, h) ==
  [r EXCEPT !.settles = @ + 1,
            !.settled = IF r.settled = "pending" THEN "resolved" ELSE @,
            !.outW = IF r.settled = "pending" THEN w ELSE @,
            !.outH = IF r.settled = "pending" THEN h ELSE @]

Reject(r, message) ==
  [r EXCEPT !.settles = @ + 1,
            !.settled = IF r.settled = "pending" THEN "rejected" ELSE @,
            !.error = IF r.settled = "pending" THEN message ELSE @]

\* The drawing state that a stage finds.
AtEntry(stage, ctx) == [ stage |-> stage, ctx |-> ctx ]

\* Positions inside the try block of the onload handler.
StagePcs == { "kernel", "snapshot", "vignette", "polaroid", "scratches", "video", "frame", "encode" }


(***************************************************************************)
(* The load callbacks of applyRetroFilter.                                 *)
(***************************************************************************)
\* An error handler that rejects and lets the processing go on.
ImgOnErrorContinues(k) ==
  /\ inv[k].pc = "loading"
  /\ inv' = [inv EXCEPT ![k] =
               [Reject(@, "Failed to load image for processing.") EXCEPT !.pc = "kernel"]]
  /\ UNCHANGED app

\* img.onerror
ImgOnError(k) ==
  /\ inv[k].pc = "loading"
  /\ inv' = [inv EXCEPT ![k] =
               [Reject(@, "Failed to load image for processing.") EXCEPT !.pc = "settled"]]
  /\ UNCHANGED app

\* img.onload up to getImageData: the canvas takes the size of the image; a
\* null context rejects and returns.
ImgOnLoad(k) ==
  /\ inv[k].pc = "loading"
  /\ \E ctxOk \in BOOLEAN :
       LET sized == [inv[k] EXCEPT !.width = inv[k].img.width, !.height = inv[k].img.height]
       IN  inv' = [inv EXCEPT ![k] =
                     IF ~ctxOk
                     THEN [Reject(sized, "Could not get canvas context") EXCEPT !.pc = "settled"]
                     ELSE [sized EXCEPT !.data = inv[k].img.data, !.pc = "kernel"]]
  /\ UNCHANGED app

\* The kernels drawing from one random stream that all invocations share:
\* the draws of the other invocation have moved it.
PixelKernelSharedStream(k) ==
  /\ inv[k].pc = "kernel"
  /\ LET r == inv[k]
         others == DOMAIN inv \ { k }
         drawn == IF others = { } THEN 0 ELSE inv[CHOOSE j \in others : TRUE].cursor
         out == SinglePass(r.filterType, r.data, r.width, r.height, r.tape, r.cursor + drawn)
     IN  inv' = [inv EXCEPT ![k] =
                   [r EXCEPT !.data = out.data, !.cursor = out.cursor - drawn,
                             !.trace = IF r.filterType \in SinglePassFilters
                                       THEN Append(@, "kernel") ELSE @,
                             !.pc = "snapshot"]]
  /\ UNCHANGED app

\* The chain of single-pass kernels.
PixelKernel(k) ==
  /\ inv[k].pc = "kernel"
  /\ LET r == inv[k]
         out == SinglePass(r.filterType, r.data, r.width, r.height, r.tape, r.cursor)
     IN  inv' = [inv EXCEPT ![k] =
                   [r EXCEPT !.data = out.data, !.cursor = out.cursor,
                             !.trace = IF r.filterType \in SinglePassFilters
                                       THEN Append(@, "kernel") ELSE @,
                             !.pc = "snapshot"]]
  /\ UNCHANGED app

\* The filters requiring a source copy, then ctx.putImageData.
SnapshotKernel(k) ==
  /\ inv[k].pc = "snapshot"
  /\ LET r == inv[k]
         copy == CopyOf(r.data)
     IN  inv' = [inv EXCEPT ![k] =
                   IF r.filterType \in SnapshotFilters
                   THEN [r EXCEPT !.copy = copy,
                                  !.data = SnapshotPass(r.filterType, r.data, copy, r.width, r.height),
                                  !.edges = EdgePixels(r.filterType, copy, r.width, r.height),
                                  !.reads = NeighbourReads(r.filterType, r.width, r.height),
                                  !.trace = Append(@, "kernel"),
                                  !.pc = "vignette"]
                   ELSE [r EXCEPT !.pc = "vignette"]]
  /\ UNCHANGED app

\* 1. Vignette
Vignette(k) ==
  /\ inv[k].pc = "vignette"
  /\ LET r == inv[k]
         intensity == VignetteIntensity(r.filterType)
     IN  inv' = [inv EXCEPT ![k] =
                   IF intensity # 0
                   THEN [r EXCEPT !.ctx = applyVignette(@),
                                  !.entry = Append(@, AtEntry("vignette", r.ctx)),
                                  !.vignettes = Append(@, intensity),
                                  !.vignetted = VignetteFill(r.data, r.width, r.height, intensity),
                                  !.trace = Append(@, "vignette"),
                                  !.pc = "polaroid"]
                   ELSE [r EXCEPT !.pc = "polaroid"]]
  /\ UNCHANGED app

\* The softness pass called before the polaroid vignette.
SoftnessBeforeVignette(k) ==
  /\ inv[k].pc = "polaroid"
  /\ LET r == inv[k]
     IN  inv' = [inv EXCEPT ![k] =
                   IF StartsWithPolaroid(r.filterType)
                   THEN [r EXCEPT !.ctx = applyVignette(applyPolaroidSoftness(@, r.filterType)),
                                  !.entry = @ \o << AtEntry("softness", r.ctx),
                                                    AtEntry("vignette",
                                                            applyPolaroidSoftness(r.ctx, r.filterType)) >>,
                                  !.vignettes = Append(@, 5),
                                  !.vignetted = VignetteFill(r.data, r.width, r.height, 5),
                                  !.trace = @ \o << "softness", "vignette" >>,
                                  !.pc = "scratches"]
                   ELSE [r EXCEPT !.pc = "scratches"]]
  /\ UNCHANGED app

\* 2. Polaroid vignette and softness
PolaroidSoftness(k) ==
  /\ inv[k].pc = "polaroid"
  /\ LET r == inv[k]
     IN  inv' = [inv EXCEPT ![k] =
                   IF StartsWithPolaroid(r.filterType)
                   THEN [r EXCEPT !.ctx = applyPolaroidSoftness(applyVignette(@), r.filterType),
                                  !.entry = @ \o << AtEntry("vignette", r.ctx),
                                                    AtEntry("softness", applyVignette(r.ctx)) >>,
                                  !.vignettes = Append(@, 5),
                                  !.vignetted = VignetteFill(r.data, r.width, r.height, 5),
                                  !.trace = @ \o << "vignette", "softness" >>,
                                  !.pc = "scratches"]
                   ELSE [r EXCEPT !.pc = "scratches"]]
  /\ UNCHANGED app

\* 3. Scratches and dust
Scratches(k) ==
  /\ inv[k].pc = "scratches"
  /\ LET r == inv[k]
     IN  inv' = [inv EXCEPT ![k] =
                   IF r.filterType \in scratchyFilters
                   THEN [r EXCEPT !.ctx = applyScratches(@),
                                  !.entry = Append(@, AtEntry("scratches", r.ctx)),
                                  !.cursor = @ + 4 * numScratches(r.width, r.height),
                                  !.trace = Append(@, "scratches"),
                                  !.pc = "video"]
                   ELSE [r EXCEPT !.pc = "video"]]
  /\ UNCHANGED app

\* The overlays with a plain "else" in place of "else if": the date stamp is
\* drawn for every preset other than vhs-worn.
VideoOverlayElse(k) ==
  /\ inv[k].pc = "video"
  /\ LET r == inv[k]
         bandDraws == 2 * r.width * BandRows(r.height)
     IN  inv' = [inv EXCEPT ![k] =
                   CASE r.filterType = "vhs-worn" /\ BandRows(r.height) = 0 ->
                          [Reject([r EXCEPT !.entry = Append(@, AtEntry("tracking", r.ctx)),
                                            !.trace = Append(@, "tracking"), !.pc = "settled"],
                                  "IndexSizeError") EXCEPT !.pc = "settled"]
                     [] r.filterType = "vhs-worn" /\ BandRows(r.height) # 0 ->
                          [r EXCEPT !.band = TrackingBand(r.width, r.height, r.tape, r.cursor),
                                    !.glitch = GlitchLines(r.height, r.tape, r.cursor + bandDraws),
                                    !.cursor = @ + bandDraws + 10,
                                    !.entry = Append(@, AtEntry("tracking", r.ctx)),
                                    !.trace = Append(@, "tracking"),
                                    !.pc = "frame"]
                     [] OTHER ->
                          [r EXCEPT !.stamp = DateStamp(r.tape, r.cursor),
                                    !.ctx = applyDateStamp(@),
                                    !.entry = Append(@, AtEntry("datestamp", r.ctx)),
                                    !.cursor = @ + 5,
                                    !.trace = Append(@, "datestamp"),
                                    !.pc = "frame"]]
  /\ UNCHANGED app

\* 4. Tracking noise (vhs-worn) or date stamp (dv-cam).  createImageData
\* throws on a band of no rows; the catch clause rejects.
VideoOverlay(k) ==
  /\ inv[k].pc = "video"
  /\ LET r == inv[k]
         bandDraws == 2 * r.width * BandRows(r.height)
     IN  inv' = [inv EXCEPT ![k] =
                   CASE r.filterType = "vhs-worn" /\ BandRows(r.height) = 0 ->
                          [Reject([r EXCEPT !.entry = Append(@, AtEntry("tracking", r.ctx)),
                                            !.trace = Append(@, "tracking"), !.pc = "settled"],
                                  "IndexSizeError") EXCEPT !.pc = "settled"]
                     [] r.filterType = "vhs-worn" /\ BandRows(r.height) # 0 ->
                          [r EXCEPT !.band = TrackingBand(r.width, r.height, r.tape, r.cursor),
                                    !.glitch = GlitchLines(r.height, r.tape, r.cursor + bandDraws),
                                    !.cursor = @ + bandDraws + 10,
                                    !.entry = Append(@, AtEntry("tracking", r.ctx)),
                                    !.trace = Append(@, "tracking"),
                                    !.pc = "frame"]
                     [] r.filterType = "dv-cam" ->
                          [r EXCEPT !.stamp = DateStamp(r.tape, r.cursor),
                                    !.ctx = applyDateStamp(@),
                                    !.entry = Append(@, AtEntry("datestamp", r.ctx)),
                                    !.cursor = @ + 5,
                                    !.trace = Append(@, "datestamp"),
                                    !.pc = "frame"]
                     [] OTHER -> [r EXCEPT !.pc = "frame"]]
  /\ UNCHANGED app

\* 5. composePolaroidFrame: a new, larger canvas; when its context is null
\* the function returns the source canvas.
ComposeFrame(k) ==
  /\ inv[k].pc = "frame"
  /\ LET r == inv[k]
     IN  IF StartsWithPolaroid(r.filterType)
         THEN \/ LET f == composePolaroidFrame(r.width, r.height, r.filterType, r.tape, r.cursor)
                 IN  inv' = [inv EXCEPT ![k] =
                               [r EXCEPT !.frame = f, !.framed = TRUE, !.cursor = f.cursor,
                                         !.entry = Append(@, AtEntry("draw", f.ctx)),
                                         !.trace = Append(@, "frame"), !.pc = "encode"]]
              \/ inv' = [inv EXCEPT ![k] =
                            [r EXCEPT !.trace = Append(@, "frame"), !.pc = "encode"]]
         ELSE inv' = [inv EXCEPT ![k] = [r EXCEPT !.pc = "encode"]]
  /\ UNCHANGED app

\* The polaroid branch without its "return": the second resolve is reached.
EncodeFallsThrough(k) ==
  /\ inv[k].pc = "encode"
  /\ LET r == [inv[k] EXCEPT !.trace = Append(@, "encode"), !.pc = "settled"]
     IN  inv' = [inv EXCEPT ![k] =
                   IF r.framed
                   THEN Resolve(Resolve(r, r.frame.width, r.frame.height), r.width, r.height)
                   ELSE Resolve(r, r.width, r.height)]
  /\ UNCHANGED app

\* resolve(framedCanvas.toDataURL(...)) or resolve(canvas.toDataURL(...))
Encode(k) ==
  /\ inv[k].pc = "encode"
  /\ LET r == [inv[k] EXCEPT !.trace = Append(@, "encode"), !.pc = "settled"]
     IN  inv' = [inv EXCEPT ![k] =
                   IF r.framed THEN Resolve(r, r.frame.width, r.frame.height)
                   ELSE Resolve(r, r.width, r.height)]
  /\ UNCHANGED app

\* An exception raised by a canvas call inside the try block: catch (e) { reject(e) }
StageThrows(k) ==
  /\ inv[k].pc \in StagePcs
  /\ inv' = [inv EXCEPT ![k] = [Reject(@, "exception") EXCEPT !.pc = "settled"]]
  /\ UNCHANGED app

\* The steps of invocation k: the two image callbacks and the stages of onload.
Step(k) ==
  \/ ImgOnError(k)
  \/ ImgOnLoad(k)
  \/ PixelKernel(k)
  \/ SnapshotKernel(k)
  \/ Vignette(k)
  \/ PolaroidSoftness(k)
  \/ Scratches(k)
  \/ VideoOverlay(k)
  \/ ComposeFrame(k)
  \/ Encode(k)
  \/ StageThrows(k)

Next == Step(1)

\* One invocation on any image, any preset string and any tape.
Init ==
  /\ \E img \in Images, filterType \in FilterType \cup UnknownFilters, tape \in Tapes :
       inv = [k \in { 1 } |-> NewInvocation(img, filterType, tape)]
  /\ app = InitialApp

Spec == Init /\ [][Next]_vars

\* The presets that call Math.random(): in their kernel, or in the scratches,
\* the tracking noise, the date stamp or the paper texture of the frame.
RandomFilters ==
  { "aged-gazette", "newspaper-bw", "bad-photocopy", "mimeograph", "thermal",
    "blueprint", "comics-60s", "vhs-worn", "dv-cam",
    "polaroid-1", "polaroid-2", "polaroid-3" }

\* The one-row images in mid-gray, on which the noise decides the output
\* of every noisy kernel, and one strip.
TwinImages ==
  { MakeImage(s[1], s[2], s[3]) :
      s \in ((1 .. MaxW) \X { 1 } \X { 3 }) \cup { << 2, 7, 5 >> } }

\* Two invocations on the same image and preset, each replaying the same tape.
InitTwin ==
  /\ \E img \in TwinImages, filterType \in RandomFilters, tape \in Tapes :
       inv = [k \in { 1, 2 } |-> NewInvocation(img, filterType, tape)]
  /\ app = InitialApp

NextTwin == Step(1) \/ Step(2)

SpecTwin == InitTwin /\ [][NextTwin]_vars


(***************************************************************************)
(* The handlers of App.  A handler runs to its first await; what follows    *)
(* the await is a separate step.  The DOM is the one rendered from the      *)
(* current state: the file input is mounted when there is no source image,  *)
(* the "Remove image" button when there is one.                             *)
(***************************************************************************)
\* The data URLs of the files the user picks.
Files == { "A", "B" }

\* The presets of the filter buttons that the user presses.
AppFilters == { "70s-mag", "polaroid-1" }

\* The sequence without its n-th element.
Without(seq, n) == [m \in 1 .. (Len(seq) - 1) |-> IF m < n THEN seq[m] ELSE seq[m + 1]]

\* handleFileChange up to "await blobToBase64(file)"
HandleFileChange(file) ==
  /\ app.sourceImage = Null
  /\ Len(app.reads) < MaxReads
  /\ app' = [app EXCEPT !.reads = Append(@, file)]
  /\ UNCHANGED inv

\* handleFileChange after the await: setSourceImage, setGeneratedImage(null),
\* setError(null)
FileRead(n) ==
  /\ n \in DOMAIN app.reads
  /\ app' = [app EXCEPT !.sourceImage = app.reads[n],
                        !.generatedImage = NullResult,
                        !.error = Null,
                        !.reads = Without(@, n)]
  /\ UNCHANGED inv

\* handleFileChange, catch (err)
FileReadFails(n) ==
  /\ n \in DOMAIN app.reads
  /\ app' = [app EXCEPT !.error = "Failed to process image file.",
                        !.reads = Without(@, n)]
  /\ UNCHANGED inv

\* onClick={() => setSelectedFilter(filter.id)}
SelectFilter(filterType) ==
  /\ app.selectedFilter # filterType
  /\ app' = [app EXCEPT !.selectedFilter = filterType]
  /\ UNCHANGED inv

\* The button that is disabled only when there is no source image.
HandleGenerateWhileLoading ==
  /\ app.sourceImage # Null
  /\ Len(app.calls) < MaxCalls
  /\ app' = [app EXCEPT !.loading = TRUE,
                        !.error = Null,
                        !.generatedImage = NullResult,
                        !.calls = Append(@, [ pc |-> "filter",
                                              source |-> app.sourceImage,
                                              filterType |-> app.selectedFilter,
                                              loadingAtStart |-> app.loading ])]
  /\ UNCHANGED inv

\* The button disabled={!sourceImage || loading} and handleGenerate up to
\* "await applyRetroFilter(sourceImage, selectedFilter)"
HandleGenerate ==
  /\ ~(app.sourceImage = Null \/ app.loading)
  /\ app.sourceImage # Null
  /\ Len(app.calls) < MaxCalls
  /\ app' = [app EXCEPT !.loading = TRUE,
                        !.error = Null,
                        !.generatedImage = NullResult,
                        !.calls = Append(@, [ pc |-> "filter",
                                              source |-> app.sourceImage,
                                              filterType |-> app.selectedFilter,
                                              loadingAtStart |-> app.loading ])]
  /\ UNCHANGED inv

\* The promise of applyRetroFilter resolves: handleGenerate goes on to
\* "await new Promise(r => setTimeout(r, 400))"
FilterResolves(c) ==
  /\ c \in DOMAIN app.calls
  /\ app.calls[c].pc = "filter"
  /\ app' = [app EXCEPT !.calls[c].pc = "delay"]
  /\ UNCHANGED inv

\* The promise rejects: catch (err) setError, finally setLoading(false)
FilterRejects(c) ==
  /\ c \in DOMAIN app.calls
  /\ app.calls[c].pc = "filter"
  /\ app' = [app EXCEPT !.error = "An unexpected error occurred while processing the image.",
                        !.loading = FALSE,
                        !.calls = Without(@, c)]
  /\ UNCHANGED inv

\* The delay is over: setGeneratedImage(resultBase64), finally setLoading(false)
DelayElapses(c) ==
  /\ c \in DOMAIN app.calls
  /\ app.calls[c].pc = "delay"
  /\ app' = [app EXCEPT !.generatedImage = [ source |-> app.calls[c].source,
                                             filterType |-> app.calls[c].filterType ],
                        !.loading = FALSE,
                        !.calls = Without(@, c)]
  /\ UNCHANGED inv

\* clearAll, from the "Remove image" button
ClearAll ==
  /\ app.sourceImage # Null
  /\ app' = [app EXCEPT !.sourceImage = Null,
                        !.generatedImage = NullResult,
                        !.error = Null]
  /\ UNCHANGED inv

NextApp ==
  \/ \E file \in Files : HandleFileChange(file)
  \/ \E n \in 1 .. MaxReads : FileRead(n)
  \/ \E n \in 1 .. MaxReads : FileReadFails(n)
  \/ \E filterType \in AppFilters : SelectFilter(filterType)
  \/ HandleGenerate
  \/ \E c \in 1 .. MaxCalls : FilterResolves(c)
  \/ \E c \in 1 .. MaxCalls : FilterRejects(c)
  \/ \E c \in 1 .. MaxCalls : DelayElapses(c)
  \/ ClearAll

\* The component after its first render; the invocations of applyRetroFilter
\* are the calls of app.
InitApp ==
  /\ inv = << >>
  /\ app = InitialApp

SpecApp == InitApp /\ [][NextApp]_vars


(***************************************************************************)
(* Properties.                                                             *)
(***************************************************************************)
Ran(r, stage) == \E n \in 1 .. Len(r.trace) : r.trace[n] = stage

\* C1: every byte of the pixel buffer after the preset's kernel, and every
\* byte of the frame surface after the paper grain of addPaperTexture, is an
\* integer in 0..255.
ChannelsInRange ==
  \A k \in DOMAIN inv :
    /\ \A j \in DOMAIN inv[k].data : inv[k].data[j] \in 0 .. 255
    /\ \A j \in DOMAIN inv[k].frame.data : inv[k].frame.data[j] \in 0 .. 255

\* C1 witness: polaroid-1 has run on a white pixel, whose red channel
\* 25 + 255 * 0.85 + 20 = 261.75 is stored as 255, and the grain has changed
\* a colour byte of the frame.
ClampedWrite ==
  \E k \in DOMAIN inv :
    LET r == inv[k]
    IN  /\ r.filterType = "polaroid-1"
        /\ Ran(r, "kernel")
        /\ r.framed
        /\ \E j \in DOMAIN r.data : j % 4 = 0 /\ r.img.data[j] = 255 /\ r.data[j] = 255
        /\ \E j \in DOMAIN r.frame.data :
             j % 4 # 3 /\ r.frame.data[j] # baseColor(r.filterType)[(j % 4) + 1]

\* C2: a resolved invocation of a known preset has the image's dimensions
\* (w, h), or for polaroid-1/2/3 the dimensions
\* (w + 2*floor(min(w,h)*0.08), h + floor(min(w,h)*0.08) + floor(min(w,h)*0.35)).
OutputDimensions ==
  \A k \in DOMAIN inv :
    LET r == inv[k]
        w == r.img.width
        h == r.img.height
        m == IF w < h THEN w ELSE h
    IN  (r.settled = "resolved" /\ r.filterType \in FilterType) =>
          IF r.filterType \in { "polaroid-1", "polaroid-2", "polaroid-3" }
          THEN /\ r.outW = w + 2 * ((m * 8) \div 100)
               /\ r.outH = h + ((m * 8) \div 100) + ((m * 35) \div 100)
          ELSE r.outW = w /\ r.outH = h

\* The position of a stage in the order kernel, vignette, softness,
\* scratches, tape/video overlay, frame, encode.
StageRank(stage) ==
  CASE stage = "kernel" -> 1
    [] stage = "vignette" -> 2
    [] stage = "softness" -> 3
    [] stage = "scratches" -> 4
    [] stage \in { "tracking", "datestamp" } -> 5
    [] stage = "frame" -> 6
    [] stage = "encode" -> 7

\* C3: in every invocation the stages that have run so far ran in the order
\* pixel transform or multi-pass effect, vignette, softness, scratches,
\* tape/video overlay, frame composition, encode, each at most once; nothing
\* runs after encode.
StagesInOrder ==
  \A k \in DOMAIN inv :
    \A n \in 1 .. (Len(inv[k].trace) - 1) :
      StageRank(inv[k].trace[n]) < StageRank(inv[k].trace[n + 1])

\* C3 witness: a resolved polaroid invocation, whose five stages have run.
FiveStagesRan ==
  \E k \in DOMAIN inv :
    /\ inv[k].settled = "resolved"
    /\ inv[k].framed
    /\ inv[k].trace = << "kernel", "vignette", "softness", "frame", "encode" >>

\* C4: a polaroid invocation whose frame composition did not get the
\* context of the frame canvas does not resolve.
FrameFailureRejects ==
  \A k \in DOMAIN inv :
    LET r == inv[k]
    IN  (r.filterType \in FilterType /\ Ran(r, "frame") /\ ~r.framed) =>
          r.settled # "resolved"

\* C5: an invocation with a preset outside the 17 known values runs no
\* pixel transform, overlay or encode step and does not resolve.
UnknownPresetFailsAtEntry ==
  \A k \in DOMAIN inv :
    inv[k].filterType \notin FilterType =>
      inv[k].trace = << >> /\ inv[k].settled # "resolved"

\* The stages selected for a preset, in the order of the handler.
SelectedStages(filterType) ==
  (IF filterType \in SinglePassFilters \cup SnapshotFilters THEN << "kernel" >> ELSE << >>)
    \o (IF VignetteIntensity(filterType) # 0 \/ StartsWithPolaroid(filterType)
        THEN << "vignette" >> ELSE << >>)
    \o (IF StartsWithPolaroid(filterType) THEN << "softness" >> ELSE << >>)
    \o (IF filterType \in scratchyFilters THEN << "scratches" >> ELSE << >>)
    \o (IF filterType = "vhs-worn" THEN << "tracking" >> ELSE << >>)
    \o (IF filterType = "dv-cam" THEN << "datestamp" >> ELSE << >>)
    \o (IF StartsWithPolaroid(filterType) THEN << "frame" >> ELSE << >>)
    \o << "encode" >>

\* C6: an invocation that could not get the canvas context, or in which a
\* stage threw, is rejected; a resolved invocation of a known preset has run
\* every stage selected for the preset to completion, the frame included.
SuccessOnlyAfterAllStages ==
  \A k \in DOMAIN inv :
    LET r == inv[k]
    IN  /\ r.error # "" => r.settled = "rejected"
        /\ (r.settled = "resolved" /\ r.filterType \in FilterType) =>
             /\ r.trace = SelectedStages(r.filterType)
             /\ StartsWithPolaroid(r.filterType) => r.framed

\* C7: an invocation whose image fired its error event is rejected and has
\* run no pixel transform, overlay, frame or encode stage.
DecodeErrorRunsNothing ==
  \A k \in DOMAIN inv :
    inv[k].error = "Failed to load image for processing." =>
      /\ inv[k].settled = "rejected"
      /\ inv[k].trace = << >>
      /\ inv[k].data = << >>
      /\ ~inv[k].framed

\* C7 witness: the error event has fired.
DecodeErrorFired ==
  \E k \in DOMAIN inv :
    inv[k].error = "Failed to load image for processing." /\ inv[k].pc = "settled"

\* The kernels named by C9.
NoiseFreeKernels ==
  { "70s-mag", "80s-pop", "90s-washed", "polaroid-1", "polaroid-2", "polaroid-3",
    "dv-cam", "blueprint" }

\* The w x h buffer whose pixels all are pixel p of data.
PixelRepeated(data, p, w, h) == [j \in 0 .. (4 * w * h - 1) |-> data[4 * p + (j % 4)]]

\* Pixel p of the buffer after the kernel is the kernel's output on the
\* 1 x 1 image holding pixel p of the input.
FunctionOfPixel(r, p) ==
  \A j \in 0 .. 3 :
    r.data[4 * p + j] =
      SinglePass(r.filterType, PixelRepeated(r.img.data, p, 1, 1), 1, 1, r.tape, 0).data[j]

\* Pixel p of the buffer after the kernel is the kernel's output on a one
\* column, two row image holding pixel p of the input, in the row of p's parity.
FunctionOfPixelAndRowParity(r, p) ==
  \A j \in 0 .. 3 :
    r.data[4 * p + j] =
      SinglePass(r.filterType, PixelRepeated(r.img.data, p, 1, 2), 1, 2, r.tape, 0)
        .data[4 * ((p \div r.width) % 2) + j]

\* C9 as stated: after the kernel of 70s-mag, 80s-pop, 90s-washed,
\* polaroid-1/2/3, dv-cam or blueprint, every output pixel is a function of
\* the input pixel only, whatever its row and column.
OutputPixelFromInputPixelOnly ==
  \A k \in DOMAIN inv :
    LET r == inv[k]
    IN  (r.pc = "snapshot" /\ r.filterType \in NoiseFreeKernels) =>
          \A p \in Pixels(r.data) : FunctionOfPixel(r, p)

\* C9 amended: that holds for the seven kernels other than dv-cam; the
\* output pixel of dv-cam is a function of the input pixel and of the parity
\* of its row, and does not depend on its column.
OutputPixelFromInputPixelAndRowParity ==
  \A k \in DOMAIN inv :
    LET r == inv[k]
    IN  (r.pc = "snapshot" /\ r.filterType \in NoiseFreeKernels) =>
          \A p \in Pixels(r.data) :
            IF r.filterType = "dv-cam"
            THEN FunctionOfPixelAndRowParity(r, p)
            ELSE FunctionOfPixel(r, p)

\* C9 witness: dv-cam has run on an image of two columns in which two
\* pixels of different rows are equal on input and differ on output.
RowsDifferAfterDV ==
  \E k \in DOMAIN inv :
    LET r == inv[k]
    IN  /\ r.pc = "snapshot"
        /\ r.filterType = "dv-cam"
        /\ r.width = 2
        /\ \E p, q \in Pixels(r.data) :
             /\ p \div r.width # q \div r.width
             /\ \A j \in 0 .. 3 : r.img.data[4 * p + j] = r.img.data[4 * q + j]
             /\ \E j \in 0 .. 2 : r.data[4 * p + j] # r.data[4 * q + j]

\* Visiting orders other than the raster order of the loops.
ReverseOrder(w, h) == [n \in 1 .. (w * h) |-> (w * h) - n]

ColumnOrder(w, h) == [n \in 1 .. (w * h) |-> ((n - 1) % h) * w + ((n - 1) \div h)]

\* The colour bytes of pixel p computed from the buffer "source" alone.
PixelFrom(filterType, source, w, h, p) ==
  CASE filterType = "misaligned" -> MisalignedPixel(source, w, h, p % w, p \div w)
    [] filterType = "vhs-worn" -> VHSPixel(source, w, h, p % w, p \div w)
    [] filterType = "comics-80s" -> Comics80sPixel(source, w, h, p % w, p \div w)

\* C10: when misaligned, vhs-worn or comics-80s has run, the snapshot is the
\* buffer as it was before the first write, every written pixel is computed
\* from the snapshot alone, and visiting the pixels in reverse or column by
\* column gives the same buffer.
SnapshotOrderIndependent ==
  \A k \in DOMAIN inv :
    LET r == inv[k]
    IN  (r.pc = "vignette" /\ r.filterType \in SnapshotFilters) =>
          /\ r.copy = r.img.data
          /\ \A p \in Pixels(r.data) :
               /\ \A j \in 0 .. 2 :
                    r.data[4 * p + j] =
                      PixelFrom(r.filterType, r.img.data, r.width, r.height, p)[j + 1]
               /\ r.data[4 * p + 3] = r.img.data[4 * p + 3]
          /\ r.data = Scan(r.filterType, r.img.data, r.copy, r.width, r.height,
                           ReverseOrder(r.width, r.height))
          /\ r.data = Scan(r.filterType, r.img.data, r.copy, r.width, r.height,
                           ColumnOrder(r.width, r.height))

\* C10 witness: vhs-worn has run on an image in which a pixel's blue is
\* read from a left neighbour of another blue, and has changed the buffer.
ShiftedReadFromSnapshot ==
  \E k \in DOMAIN inv :
    LET r == inv[k]
    IN  /\ r.pc = "vignette"
        /\ r.filterType = "vhs-worn"
        /\ r.width >= 2
        /\ r.copy[2] # r.copy[6]
        /\ r.data # r.copy

VignettePasses(filterType) ==
  IF filterType \in { "80s-pop", "bad-photocopy", "dv-cam", "comics-60s" } THEN << >>
  ELSE IF filterType \in { "polaroid-1", "polaroid-2", "polaroid-3" } THEN << 5 >>
  ELSE IF filterType \in { "blueprint", "thermal", "vhs-worn", "comics-80s" } THEN << 6 >>
  ELSE << 2 >>

\* C11: for each of the 17 presets the vignette passes are those of the
\* preset: none for 80s-pop, bad-photocopy, dv-cam and comics-60s, one at 0.5
\* for polaroid-1/2/3, one at 0.6 for blueprint, thermal, vhs-worn and
\* comics-80s, one at 0.2 for the others.  No invocation ever has two passes,
\* and one that has gone past the two vignette steps has exactly its passes.
VignettePassesByPreset ==
  \A k \in DOMAIN inv :
    LET r == inv[k]
    IN  r.filterType \in FilterType =>
          /\ Len(r.vignettes) <= 1
          /\ r.vignettes \in { << >>, VignettePasses(r.filterType) }
          /\ (r.pc \in { "scratches", "video", "frame", "encode" } \/ r.settled = "resolved") =>
               r.vignettes = VignettePasses(r.filterType)

\* C11 witness: a polaroid invocation has resolved after its one pass at 0.5.
PolaroidVignetteOnce ==
  \E k \in DOMAIN inv :
    /\ inv[k].filterType = "polaroid-3"
    /\ inv[k].settled = "resolved"
    /\ inv[k].vignettes = << 5 >>

\* C12: for each of the 17 presets, the tracking noise is called only for
\* vhs-worn and the date stamp only for dv-cam, the softness pass and the frame
\* composition only for polaroid-1/2/3; an invocation that has gone past the
\* step of a stage selected for its preset has called it; and no invocation
\* calls both a tape/video overlay and the frame composition.
OverlaysByPreset ==
  \A k \in DOMAIN inv :
    LET r == inv[k]
        isPolaroid == r.filterType \in { "polaroid-1", "polaroid-2", "polaroid-3" }
        past(pcs) == r.pc \in pcs \/ r.settled = "resolved"
    IN  r.filterType \in FilterType =>
          /\ Ran(r, "tracking") => r.filterType = "vhs-worn"
          /\ Ran(r, "datestamp") => r.filterType = "dv-cam"
          /\ Ran(r, "softness") => isPolaroid
          /\ Ran(r, "frame") => isPolaroid
          /\ (r.filterType = "vhs-worn" /\ past({ "frame", "encode" })) => Ran(r, "tracking")
          /\ (r.filterType = "dv-cam" /\ past({ "frame", "encode" })) => Ran(r, "datestamp")
          /\ (isPolaroid /\ past({ "scratches", "video", "frame", "encode" })) => Ran(r, "softness")
          /\ (isPolaroid /\ past({ "encode" })) => Ran(r, "frame")
          /\ ~((Ran(r, "tracking") \/ Ran(r, "datestamp")) /\ Ran(r, "frame"))

\* C12 witness: a vhs-worn invocation has resolved with its tracking band
\* and glitch lines drawn, and without a frame.
TrackingOnlyOnVHS ==
  \E k \in DOMAIN inv :
    LET r == inv[k]
    IN  /\ r.filterType = "vhs-worn"
        /\ r.settled = "resolved"
        /\ Ran(r, "tracking")
        /\ Len(r.glitch) = 5
        /\ ~Ran(r, "frame")

\* C13: an invocation of polaroid-1/2/3 that has called the frame
\* composition holds a new surface of the frame's size, distinct from the
\* photo canvas, which keeps its size and buffer; the photo is placed at
\* (borderSize, borderSize) and its w x h rectangle has borderSize pixels to
\* its left, right and top and bottomSize pixels below.
FrameIsNewSurface ==
  \A k \in DOMAIN inv :
    LET r == inv[k]
        f == r.frame
        w == r.img.width
        h == r.img.height
    IN  (r.filterType \in { "polaroid-1", "polaroid-2", "polaroid-3" } /\ Ran(r, "frame")) =>
          /\ r.framed
          /\ Length(f.data) = 4 * f.width * f.height
          /\ r.width = w /\ r.height = h /\ Length(r.data) = 4 * w * h
          /\ f.photoX = borderSize(w, h) /\ f.photoY = borderSize(w, h)
          /\ f.photoW = w /\ f.photoH = h
          /\ f.width - (f.photoX + f.photoW) = borderSize(w, h)
          /\ f.height - (f.photoY + f.photoH) = bottomSize(w, h)

\* max(2, floor(w * 0.006)), the offset named by C14
ShiftOf(w) == IF (6 * w) \div 1000 > 2 THEN (6 * w) \div 1000 ELSE 2

\* C14 as stated: after misaligned, for every pixel (x, y), red is the
\* snapshot red at column min(x + offset, w - 1) of the row, blue the
\* snapshot blue at column max(x - offset, 0), green the snapshot green at x.
MisalignedReadsClampedColumns ==
  \A k \in DOMAIN inv :
    LET r == inv[k]
        w == r.width
        off == ShiftOf(w)
    IN  (r.pc = "vignette" /\ r.filterType = "misaligned") =>
          \A y \in 0 .. (r.height - 1) : \A x \in 0 .. (w - 1) :
            LET xR == IF x + off < w - 1 THEN x + off ELSE w - 1
                xB == IF x - off > 0 THEN x - off ELSE 0
            IN  /\ r.data[(y * w + x) * 4] = r.copy[(y * w + xR) * 4]
                /\ r.data[(y * w + x) * 4 + 1] = r.copy[(y * w + x) * 4 + 1]
                /\ r.data[(y * w + x) * 4 + 2] = r.copy[(y * w + xB) * 4 + 2]

\* C14 amended: red is the snapshot red at column x + offset when that
\* column exists and at column x itself otherwise; blue is the snapshot blue
\* at column x - offset when that column exists and at column x otherwise;
\* green is the snapshot green at x.
MisalignedReadsShiftedOrOwnColumn ==
  \A k \in DOMAIN inv :
    LET r == inv[k]
        w == r.width
        off == ShiftOf(w)
    IN  (r.pc = "vignette" /\ r.filterType = "misaligned") =>
          \A y \in 0 .. (r.height - 1) : \A x \in 0 .. (w - 1) :
            LET xR == IF x + off <= w - 1 THEN x + off ELSE x
                xB == IF x - off >= 0 THEN x - off ELSE x
            IN  /\ r.data[(y * w + x) * 4] = r.copy[(y * w + xR) * 4]
                /\ r.data[(y * w + x) * 4 + 1] = r.copy[(y * w + x) * 4 + 1]
                /\ r.data[(y * w + x) * 4 + 2] = r.copy[(y * w + xB) * 4 + 2]

\* C14 witness: misaligned has run on an image wide enough for a shifted
\* read that changes a red, in which a pixel next to the last column, whose
\* shifted column does not exist, keeps its own red and not that of the last
\* column.
OwnRedKeptNextToLastColumn ==
  \E k \in DOMAIN inv :
    LET r == inv[k]
        w == r.width
    IN  /\ r.pc = "vignette"
        /\ r.filterType = "misaligned"
        /\ w > ShiftOf(w) + 1
        /\ r.data[0] = r.copy[ShiftOf(w) * 4] /\ r.data[0] # r.copy[0]
        /\ r.data[(w - 2) * 4] = r.copy[(w - 2) * 4]
        /\ r.data[(w - 2) * 4] # r.copy[(w - 1) * 4]

\* C15: after comics-80s, no iteration of the last row or the last column
\* has set isEdge, every pixel there holds the boost of its own snapshot pixel
\* (the output on the 1 x 1 image of that pixel), whatever the image, and
\* every pixel read lies in columns 0..w-1 and rows 0..h-1.
LastRowAndColumnNeverEdges ==
  \A k \in DOMAIN inv :
    LET r == inv[k]
        w == r.width
        h == r.height
    IN  (r.pc = "vignette" /\ r.filterType = "comics-80s") =>
          /\ \A c \in r.edges : c[1] < w - 1 /\ c[2] < h - 1
          /\ \A p \in Pixels(r.data) :
               (p % w = w - 1 \/ p \div w = h - 1) =>
                 \A j \in 0 .. 2 :
                   r.data[4 * p + j] =
                     Comics80sPixel(PixelRepeated(r.copy, p, 1, 1), 1, 1, 0, 0)[j + 1]
          /\ r.reads \subseteq (0 .. (w - 1)) \X (0 .. (h - 1))

\* C15 witness: comics-80s has run on an image of at least two rows and
\* columns, has inked the first pixel, left of a pixel of another brightness,
\* and has not inked the pixel of the last column whose successor in the
\* buffer, the first pixel of the next row, has another brightness.
LastColumnNotInked ==
  \E k \in DOMAIN inv :
    LET r == inv[k]
        w == r.width
    IN  /\ r.pc = "vignette"
        /\ r.filterType = "comics-80s"
        /\ w >= 2 /\ r.height >= 2
        /\ << 0, 0 >> \in r.edges
        /\ r.data[0] = 10 /\ r.data[1] = 10 /\ r.data[2] = 15
        /\ r.copy[4 * (w - 1)] # r.copy[4 * w]
        /\ << w - 1, 0 >> \notin r.edges
        /\ r.data[4 * (w - 1)] # 10

\* 0.299 R + 0.587 G + 0.114 B of pixel p of a buffer
LumaAt(buf, p) == Luma(QInt(buf[4 * p]), QInt(buf[4 * p + 1]), QInt(buf[4 * p + 2]))

\* (R + G + B) / 3 of pixel p of a buffer
MeanAt(buf, p) == Mean3(QInt(buf[4 * p]), QInt(buf[4 * p + 1]), QInt(buf[4 * p + 2]))

\* |a - b| > 30
Over30(a, b) == QLt(QInt(30), QSub(a, b)) \/ QLt(QInt(30), QSub(b, a))

\* Pixel p of the invocation holds the ink colour exactly when "edge" is
\* true, and otherwise the boost of its own snapshot pixel.
InkIff(r, p, edge) ==
  /\ (<< p % r.width, p \div r.width >> \in r.edges) = edge
  /\ IF edge
     THEN r.data[4 * p] = 10 /\ r.data[4 * p + 1] = 10 /\ r.data[4 * p + 2] = 15
     ELSE \A j \in 0 .. 2 :
            r.data[4 * p + j] =
              Comics80sPixel(PixelRepeated(r.copy, p, 1, 1), 1, 1, 0, 0)[j + 1]

\* C16 as stated: after comics-80s, a pixel not in the last row or column
\* is ink if and only if its snapshot luma 0.299R+0.587G+0.114B differs by
\* more than 30 from that of its right or of its bottom neighbour, and
\* otherwise holds the boost of its own snapshot pixel.
InkWhereLumaStepsOver30 ==
  \A k \in DOMAIN inv :
    LET r == inv[k]
        w == r.width
    IN  (r.pc = "vignette" /\ r.filterType = "comics-80s") =>
          \A p \in Pixels(r.data) :
            (p % w < w - 1 /\ p \div w < r.height - 1) =>
              InkIff(r, p, \/ Over30(LumaAt(r.copy, p), LumaAt(r.copy, p + 1))
                           \/ Over30(LumaAt(r.copy, p), LumaAt(r.copy, p + w)))

\* C16 amended: the same with the unweighted mean (R+G+B)/3 of the
\* snapshot pixels in place of the luma.
InkWhereMeanStepsOver30 ==
  \A k \in DOMAIN inv :
    LET r == inv[k]
        w == r.width
    IN  (r.pc = "vignette" /\ r.filterType = "comics-80s") =>
          \A p \in Pixels(r.data) :
            (p % w < w - 1 /\ p \div w < r.height - 1) =>
              InkIff(r, p, \/ Over30(MeanAt(r.copy, p), MeanAt(r.copy, p + 1))
                           \/ Over30(MeanAt(r.copy, p), MeanAt(r.copy, p + w)))

\* C16 witness: comics-80s has inked a pixel whose luma is within 30 of the
\* luma of both neighbours and whose mean is more than 30 from the mean of
\* its right neighbour.
InkedOnMeanNotOnLuma ==
  \E k \in DOMAIN inv :
    LET r == inv[k]
        w == r.width
        inner == { p \in Pixels(r.data) : p % w < w - 1 /\ p \div w < r.height - 1 }
    IN  /\ r.pc = "vignette"
        /\ r.filterType = "comics-80s"
        /\ \E p \in inner :
             /\ ~Over30(LumaAt(r.copy, p), LumaAt(r.copy, p + 1))
             /\ ~Over30(LumaAt(r.copy, p), LumaAt(r.copy, p + w))
             /\ Over30(MeanAt(r.copy, p), MeanAt(r.copy, p + 1))
             /\ r.data[4 * p] = 10 /\ r.data[4 * p + 1] = 10 /\ r.data[4 * p + 2] = 15

\* All pixels of a buffer are equal.
Uniform(buf) == \A j \in DOMAIN buf : buf[j] = buf[j % 4]

\* The buffer is that of a 2 x 2 image of four pixels (128, 128, 128, 255).
MidGray2x2(r) ==
  /\ r.img.width = 2 /\ r.img.height = 2
  /\ \A j \in DOMAIN r.img.data : r.img.data[j] = (IF j % 4 = 3 THEN 255 ELSE 128)

\* The four bytes of every pixel of a buffer are those of px.
AllPixels(buf, px) == \A j \in DOMAIN buf : buf[j] = px[(j % 4) + 1]

\* C17 as stated: a blueprint invocation that has resolved on the 2 x 2
\* mid-gray image has a canvas of four pixels (115, 135, 170), and one that has
\* resolved on a uniform image has a uniform canvas.  (The scratches draw
\* floor(w*h/50000) = 0 strokes at these sizes: the canvas encoded is the
\* bitmap left by the vignette.)
BlueprintOutputOfMidGray ==
  \A k \in DOMAIN inv :
    LET r == inv[k]
    IN  (r.filterType = "blueprint" /\ r.settled = "resolved" /\ numScratches(r.width, r.height) = 0) =>
          /\ MidGray2x2(r) => AllPixels(r.vignetted, << 115, 135, 170, 255 >>)
          /\ Uniform(r.img.data) => Uniform(r.vignetted)

\* C17 amended: the blueprint kernel writes (115, 135, 170) to the four
\* pixels of the 2 x 2 mid-gray image and maps a uniform buffer to a uniform
\* buffer; the vignette at 0.6 that follows darkens no channel of the 2 x 2
\* mid-gray image by less than 20 and leaves its four pixels equal.
BlueprintKernelOfMidGray ==
  \A k \in DOMAIN inv :
    LET r == inv[k]
    IN  (r.filterType = "blueprint" /\ Ran(r, "kernel")) =>
          /\ MidGray2x2(r) => AllPixels(r.data, << 115, 135, 170, 255 >>)
          /\ Uniform(r.img.data) => Uniform(r.data)
          /\ (MidGray2x2(r) /\ Ran(r, "vignette")) =>
               /\ Uniform(r.vignetted)
               /\ \A j \in 0 .. 2 : r.vignetted[j] <= r.data[j] - 20

\* C17 witness: blueprint has resolved on the 2 x 2 mid-gray image, the
\* kernel having written (115, 135, 170) and the vignette having darkened it.
BlueprintMidGrayDarkened ==
  \E k \in DOMAIN inv :
    LET r == inv[k]
    IN  /\ r.filterType = "blueprint"
        /\ r.settled = "resolved"
        /\ MidGray2x2(r)
        /\ r.data[0] = 115 /\ r.data[1] = 135 /\ r.data[2] = 170
        /\ r.vignetted[0] < 115

\* (Y + noise - 128) * 2 + 128 for pixel p of the decoded image, with
\* noise = (random - 0.5) * 30 for the p-th value drawn from the tape
ContrastResult(r, p) ==
  QAdd(QMul(QSub(QAdd(LumaAt(r.img.data, p),
                      QMul(QSub(QNorm(r.tape[(p % Len(r.tape)) + 1], 1000), QNorm(1, 2)), 30, 1)),
                 QInt(128)), 2, 1),
       QInt(128))

\* C18: after newspaper-bw, on every image and tape, every pixel has
\* R = G = B in 15..245: 245 when the contrast result is 245 or more, 15 when
\* it is 15 or less and the result itself, as stored in a byte, otherwise; a
\* white pixel with zero noise, whose result is 382, holds 245.
NewspaperGrayIn15To245 ==
  \A k \in DOMAIN inv :
    LET r == inv[k]
    IN  (r.filterType = "newspaper-bw" /\ Ran(r, "kernel")) =>
          \A p \in Pixels(r.data) :
            LET v == ContrastResult(r, p)
            IN  /\ r.data[4 * p] \in 15 .. 245
                /\ r.data[4 * p + 1] = r.data[4 * p]
                /\ r.data[4 * p + 2] = r.data[4 * p]
                /\ r.data[4 * p] = (IF v.i >= 245 THEN 245
                                    ELSE IF QLt(v, QInt(15)) THEN 15
                                    ELSE ToUint8Clamp(v))
                /\ (r.img.data[4 * p] = 255 /\ r.img.data[4 * p + 1] = 255
                      /\ r.img.data[4 * p + 2] = 255 /\ r.tape[(p % Len(r.tape)) + 1] = 500) =>
                     (v = QInt(382) /\ r.data[4 * p] = 245)

\* C18 witness: newspaper-bw has run on a white pixel with zero noise and
\* has written 245 to its three colour bytes.
WhiteWithZeroNoiseIs245 ==
  \E k \in DOMAIN inv :
    LET r == inv[k]
    IN  /\ r.filterType = "newspaper-bw"
        /\ Ran(r, "kernel")
        /\ r.tape[1] = 500
        /\ r.img.data[0] = 255 /\ r.img.data[1] = 255 /\ r.img.data[2] = 255
        /\ r.data[0] = 245 /\ r.data[1] = 245 /\ r.data[2] = 245

\* The colour bytes of the pixels p and q of a buffer are equal.
SameColour(buf, p, q) == \A j \in 0 .. 2 : buf[4 * p + j] = buf[4 * q + j]

\* C19: after comics-60s on a uniform image, the pixel at (x, y) equals the
\* pixel at (x + 4, y) and the pixel at (x, y + 4) wherever those exist; on
\* the 4 x 4 black image the 16 pixels are equal, all of them ink (20, 20, 40).
HalftonePeriod4 ==
  \A k \in DOMAIN inv :
    LET r == inv[k]
        w == r.width
        h == r.height
    IN  (r.filterType = "comics-60s" /\ Ran(r, "kernel") /\ Uniform(r.img.data)) =>
          /\ \A y \in 0 .. (h - 1) : \A x \in 0 .. (w - 5) :
               SameColour(r.data, y * w + x, y * w + x + 4)
          /\ \A y \in 0 .. (h - 5) : \A x \in 0 .. (w - 1) :
               SameColour(r.data, y * w + x, (y + 4) * w + x)
          /\ (w = 4 /\ h = 4 /\ r.img.data[0] = 0 /\ r.img.data[1] = 0 /\ r.img.data[2] = 0) =>
               \A p \in Pixels(r.data) :
                 r.data[4 * p] = 20 /\ r.data[4 * p + 1] = 20 /\ r.data[4 * p + 2] = 40

\* C19 witness: comics-60s has run on a uniform image of more than one
\* tile, on which the dots leave both ink and paper: the second pixel of the
\* third row equals the sixth and differs from the first.
DotsRepeatAcrossTiles ==
  \E k \in DOMAIN inv :
    LET r == inv[k]
    IN  /\ r.filterType = "comics-60s"
        /\ Ran(r, "kernel")
        /\ Uniform(r.img.data)
        /\ r.width >= 6 /\ r.height >= 5
        /\ SameColour(r.data, 2 * r.width + 1, 2 * r.width + 5)
        /\ ~SameColour(r.data, 2 * r.width + 1, 2 * r.width)
        /\ SameColour(r.data, 0, 4 * r.width)

\* C20: when the kernel stage of any of the 17 presets is over, the alpha
\* byte of every pixel is the one of the decoded image and the buffer has
\* width * height * 4 bytes; the snapshot has the same length.
KernelsKeepAlpha ==
  \A k \in DOMAIN inv :
    LET r == inv[k]
    IN  (r.filterType \in FilterType /\ Ran(r, "kernel")) =>
          /\ Length(r.data) = r.img.width * r.img.height * 4
          /\ DOMAIN r.data = DOMAIN r.img.data
          /\ \A p \in Pixels(r.data) : r.data[4 * p + 3] = r.img.data[4 * p + 3]
          /\ r.filterType \in SnapshotFilters => DOMAIN r.copy = DOMAIN r.img.data

\* C20 witness: a kernel has changed the colour of a half-transparent
\* pixel, whose alpha is still 128.
ColourChangedAlphaKept ==
  \E k \in DOMAIN inv :
    LET r == inv[k]
    IN  /\ r.filterType \in FilterType
        /\ Ran(r, "kernel")
        /\ \E p \in Pixels(r.data) :
             /\ r.img.data[4 * p + 3] = 128
             /\ r.data[4 * p + 3] = 128
             /\ r.data[4 * p] # r.img.data[4 * p]

\* C21: an invocation has called resolve or reject at most once; it has
\* called one of them exactly when its handler has returned, the promise is
\* then resolved (after encode) or rejected (with an error) accordingly, and
\* from then on nothing of the invocation changes: no stage runs after it.
SettlesExactlyOnce ==
  /\ [](\A k \in DOMAIN inv :
          LET r == inv[k]
          IN  /\ r.settles \in { 0, 1 }
              /\ (r.settles = 1) = (r.pc = "settled")
              /\ (r.settles = 1) = (r.settled # "pending")
              /\ r.settled = "resolved" => (r.error = "" /\ r.trace[Len(r.trace)] = "encode")
              /\ r.settled = "rejected" => (r.error # "" /\ ~Ran(r, "encode")))
  /\ [][\A k \in DOMAIN inv : inv[k].settles >= 1 => inv'[k] = inv[k]]_vars

\* C21 witness: a polaroid invocation has resolved through the framing
\* branch, with one call of resolve.
FramedResolvedOnce ==
  \E k \in DOMAIN inv :
    /\ inv[k].framed
    /\ inv[k].settled = "resolved"
    /\ inv[k].settles = 1
    /\ inv[k].pc = "settled"

\* The calls of handleGenerate whose applyRetroFilter run has not ended.
InFlight == { c \in DOMAIN app.calls : app.calls[c].pc \in { "filter", "delay" } }

\* C22: at most one call of handleGenerate is in flight; each was started
\* with loading false and a source image; loading is true exactly while a
\* call is in flight, so it is false again when the call has ended, on
\* success and on failure.
OneRunInFlight ==
  /\ Cardinality(InFlight) <= 1
  /\ \A c \in InFlight : ~app.calls[c].loadingAtStart /\ app.calls[c].source # Null
  /\ app.loading = (InFlight # { })

\* C22 witness: a call is in flight, loading is true, and the source image
\* has been removed meanwhile.
RunInFlightWhileLoading ==
  /\ Cardinality(InFlight) = 1
  /\ app.loading
  /\ app.sourceImage = Null


\* C23: a non-null generatedImage is the result of filtering the source
\* image that App currently holds.
ResultIsOfCurrentSource ==
  app.generatedImage # NullResult =>
    /\ app.sourceImage # Null
    /\ app.generatedImage.source = app.sourceImage


\* The overlay stages and the drawImage of the photo into the frame.
OverlayStages == { "vignette", "softness", "scratches", "tracking", "datestamp", "draw" }

\* C24: at the start of every overlay stage and at the drawImage of the
\* photo into the polaroid frame the blend mode is source-over, the global
\* alpha is 1, the filter is none and the shadow colour is transparent, for
\* every preset; every stage that has run has its entry recorded.
NoContextLeak ==
  \A k \in DOMAIN inv :
    LET r == inv[k]
    IN  /\ \A n \in DOMAIN r.entry :
             /\ r.entry[n].stage \in OverlayStages
             /\ r.entry[n].ctx.globalCompositeOperation = "source-over"
             /\ r.entry[n].ctx.globalAlpha = 10
             /\ r.entry[n].ctx.filter = "none"
             /\ r.entry[n].ctx.shadowColor = "transparent"
        /\ \A stage \in OverlayStages \ { "draw" } :
             Ran(r, stage) = (\E n \in DOMAIN r.entry : r.entry[n].stage = stage)
        /\ r.framed = (\E n \in DOMAIN r.entry : r.entry[n].stage = "draw")

\* C24 witness: a polaroid-2 photo went through the vignette, the softness
\* pass with its milkiness fill and the drawImage into the frame, and the
\* two later steps started on a clean context.
SoftnessAndFrameDrawClean ==
  \E k \in DOMAIN inv :
    LET r == inv[k]
    IN  /\ r.filterType = "polaroid-2"
        /\ r.framed
        /\ Len(r.entry) = 3
        /\ r.entry[1].stage = "vignette"
        /\ r.entry[2] = AtEntry("softness", FreshContext)
        /\ r.entry[3] = AtEntry("draw", FreshContext)

====
